---------------------------- MODULE Spec2Model ----------------------------
(***************************************************************************)
(* Model of the multidrop SAP library:                                     *)
(*   - the SAP header codec of sap/packet.go (ParseHeader, WriteBinary,    *)
(*     the authentication sub-header and its padding arithmetic) and the   *)
(*     older decoder Parse of sap/sap.go;                                  *)
(*   - the live announcement accumulator of sap/network.go (countStreams,  *)
(*     Iterator, WaitChange, Close);                                       *)
(*   - the liveness filters of sap/filters.go and cmd/sapdump;             *)
(*   - the receive loop streamDecode of sap/sap.go and its channels.       *)
(* Bytes are naturals in 0..255, byte slices and strings are sequences of  *)
(* bytes.  Go indexes from 0, TLA+ sequences from 1: a Go index i is the   *)
(* element i+1 here, and Slice(b, lo, hi) is Go's b[lo:hi].                *)
(***************************************************************************)
EXTENDS Integers, Sequences, FiniteSets, TLC

VARIABLES
    \* ---- codec (sap/packet.go, sap/sap.go)
    cpc,        \* position of the codec run: "input", "raw", "encoded", "decoded", ...
    hdr,        \* the Header the caller hands to WriteBinary (stale fields included)
    payload,    \* the payload the caller hands to WriteBinary
    wr,         \* the outcome of Packet.WriteBinary
    buf,        \* the byte buffer handed to the decoder
    dec,        \* the outcome of the decoder on buf
    full,       \* the outcome of the decoder on the untruncated buffer
    \* ---- accumulator (sap/network.go)
    lifetimes,      \* channelMap.lifetimes
    rw,             \* channelMap's embedded sync.RWMutex
    notifClosed,    \* close(channels.notifications) has run
    connClosed,     \* Close() has closed the connection
    clock,          \* the last reading of the monotonic clock (time.Now)
    csPc,           \* position of the countStreams goroutine
    csPkt,          \* countStreams' p: the announcement just read
    channel,        \* countStreams' local copy of the entry being updated
    csNow,          \* the reading of time.Now() in network.go line 162
    wPc,            \* per WaitChange caller: "idle" or "recv"
    itPc,           \* position of the Iterator call and of its goroutine
    itTodo,         \* keys the range loop of the Iterator goroutine has not visited
    itCh,           \* the buffered result channel of the Iterator call
    itCap,          \* the capacity of that channel
    itFilter,       \* the filter handed to Iterator
    \* ---- history (not program state)
    itSnap,         \* the map at the moment the Iterator call took the read lock
    itSent,         \* the keys and entries the Iterator goroutine has sent, in order
    seen,           \* per identity: how many announcements were ingested, and the last
    ingests,        \* completed map updates
    trueReturns,    \* WaitChange calls that returned true
    lateTrue,       \* a WaitChange call returned true after Close() had been called
    decodeErrs,     \* datagrams SDPConn.Read rejected after a successful socket read
    sockErr,        \* the socket read itself has failed (not through Close)
    \* ---- liveness filters (sap/filters.go, cmd/sapdump/sapdump.go)
    flt,            \* a filter call: lf the *AdvLifetime handed to the filter, pc
                    \* ("off", "ready" before the call, "done" after it), call the
                    \* filter called with its clock readings and its result
    \* ---- receive loop (sap/sap.go streamDecode)
    rtp,            \* parseRTP of rtpdump, a record of
                    \*   pc       position: "off", "read", "returned"
                    \*   seqnum   parseRTP's seqnum (uint16)
                    \*   started  parseRTP's started
                    \*   debug    the -v flag
                    \*   log      history: the lines logged, each with the number
                    \*            (at) of the datagram read that produced it
                    \*   pkts     history: sequence numbers of the valid packets
                    \*   reads    history: returns of conn.ReadFromUDP so far
                    \*   dst      history: where the datagram of the last read
                    \*            was addressed
    sc,             \* the StreamChan of the earlier CountStreams and its users, a
                    \* record of
                    \*   pc         countStreams: "off", "select", "send" (at
                    \*              cch.datachan <- snapshot), "returned"
                    \*   channels   countStreams' channels, a sequence of entries
                    \*   snapshot   the snapshot about to be sent
                    \*   ctlClosed  close(controlchan) has run
                    \*   dataClosed close(datachan) has run
                    \*   rd         per Read() caller: "idle", "send" (at
                    \*              controlchan <- true), "recv" (at <-datachan),
                    \*              "panicked"
                    \*   cl         the Close() call: "idle", "send" (at
                    \*              controlchan <- false), "close", "done"
                    \*   got        history: what the last Read() to return returned
                    \*   ingests    history: announcements taken from dch
    fc,             \* a FindChannels call, a record of
                    \*   pc        "off", "read" (at c.Read()), "returned",
                    \*             "panicked"
                    \*   channels  the requested names
                    \*   matches   the map being filled, NoAddr where no entry
                    \*   seen      history: per session name the latest
                    \*             announcement read
                    \*   last      history: what the last c.Read() returned
    sd              \* streamDecode and its channels, a record of
                    \*   pc          position: "select", "read", "next", "returned", "panicked"
                    \*   p           streamDecode's p, the Packet of this iteration
                    \*   announces   the buffered channel ListenSAP made, oldest first
                    \*   annClosed   close(announces) has run
                    \*   connClosed  conn.Close() has run
                    \*   control     the control channel: "idle", "sending", "closed"
                    \*   delivered   history: ids of the packets the consumer received
                    \*   reads       history: returns of conn.ReadFrom so far
                    \*   drops       history: packets dropped on a full channel
                    \*   sockErr     history: conn.ReadFrom has returned an error

codecVars == <<cpc, hdr, payload, wr, buf, dec, full>>
accVars == <<lifetimes, rw, notifClosed, connClosed, clock, csPc, csPkt, channel, csNow,
             wPc, itPc, itTodo, itCh, itCap, itFilter,
             itSnap, itSent, seen, ingests, trueReturns, lateTrue,
             decodeErrs, sockErr>>
filterVars == <<flt>>
streamVars == <<sd>>
rtpVars == <<rtp>>
earlierVars == <<sc, fc>>
vars == <<cpc, hdr, payload, wr, buf, dec, full,
          lifetimes, rw, notifClosed, connClosed, clock, csPc, csPkt, channel, csNow,
          wPc, itPc, itTodo, itCh, itCap, itFilter,
          itSnap, itSent, seen, ingests, trueReturns, lateTrue,
          decodeErrs, sockErr,
          flt, sd, rtp, sc, fc>>

(***************************************************************************)
(* Bounds of the model.                                                    *)
(***************************************************************************)
MaxDataLen == 3      \* longest authentication data of an input header
MaxPaddingLen == 2   \* largest PaddingLen an input header carries in
MaxShort == 2        \* most bytes a destination buffer falls short of Length()
MaxSlack == 1        \* most bytes a destination buffer exceeds Length() by
MaxDatagrams == 3    \* datagrams parseRTP reads in one run
MaxPayloadLen == 1   \* longest payload of an input packet
MaxIngest == 2       \* announcements countStreams ingests
MaxClock == 1        \* largest clock reading
MaxLast == 1         \* latest Last of an entry handed to a filter, in minutes
MaxInterval == 7     \* longest Interval of such an entry, in minutes
MaxCount == 2        \* largest Count of such an entry
MaxElapsed == 62     \* longest time from Last to the filter's first clock reading
MaxDelay == 1        \* longest time between the two clock readings of one call
MaxReads == 4        \* returns of conn.ReadFrom in one run of streamDecode
ChanLen == 2         \* Params.ChanLen, the capacity of the announces channel

(***************************************************************************)
(* Bytes, slices and strings.                                              *)
(***************************************************************************)
Min(a, b) == IF a < b THEN a ELSE b
Max(a, b) == IF a > b THEN a ELSE b

\* bit k of byte x, as Go's (x & (1<<k)) != 0
Bit(x, k) == (x \div (2 ^ k)) % 2 = 1

\* booluint8 of packet.go
booluint8(b) == IF b THEN 1 ELSE 0

\* A byte past the length of a slice, inside its backing array: Conn.Read and
\* streamDecode hand the decoder b[:len] of a zeroed make([]byte, initialMTU).
StaleByte == 0

\* Go's b[lo:hi] read out of the backing array of b.
Slice(b, lo, hi) ==
    [i \in 1..(IF hi > lo THEN hi - lo ELSE 0) |->
        IF lo + i <= Len(b) THEN b[lo + i] ELSE StaleByte]

\* Go's copy(dst[off:], src): writes Min(len(src), len(dst)-off) bytes.
CopyAt(dst, off, src) ==
    [i \in 1..Len(dst) |->
        IF i > off /\ i - off <= Len(src) THEN src[i - off] ELSE dst[i]]

\* dst with the byte at Go index i set to x
SetAt(dst, i, x) == [dst EXCEPT ![i + 1] = x]

\* bytes.Index(b, []byte{0}): the Go index of the first NUL, -1 if none
IndexNul(b) ==
    IF \E i \in 1..Len(b) : b[i] = 0
    THEN (CHOOSE i \in 1..Len(b) : b[i] = 0 /\ \A j \in 1..(i - 1) : b[j] # 0) - 1
    ELSE -1

\* "application/sdp"
SDPPayloadType == <<97, 112, 112, 108, 105, 99, 97, 116, 105, 111, 110, 47, 115, 100, 112>>
\* "v=0"
SDPMagic == <<118, 61, 48>>

ErrHeaderLen == "invalid header length"
ErrVersion == "invalid SAP version"
ErrPayloadType == "malformed payload type"
ErrAuthVersion == "version is not supported"
ErrPadding == "invalid padding length"
ErrTooSmall == "buffer too small"
ErrPanic == "panic"
NoErr == "nil"

(***************************************************************************)
(* sap/packet.go: Header, AuthData.                                        *)
(***************************************************************************)
\* Header.AuthData == nil
NoAuth == [present |-> FALSE]

\* Header{}
ZeroHeader ==
    [Version |-> 0, AddressType |-> FALSE, Reserved |-> FALSE, Type |-> FALSE,
     Compressed |-> FALSE, Encrypted |-> FALSE, AuthLen |-> 0, IDHash |-> 0,
     AuthData |-> NoAuth, OrigSrc |-> <<>>, PayloadType |-> <<>>, len |-> 0]

\* A decoder outcome: the header, the error, and the largest Go index bound the
\* decoder read up to (extent): a read past len(b) is extent > len(b).
Outcome(h, err, extent) == [h |-> h, err |-> err, extent |-> extent]

\* Lines 160-162 had any version of the sub-header been accepted
parseAuthDataAnyVersion(b) ==
    LET d0 == [present |-> TRUE, Version |-> b[1] \div 32, Padding |-> Bit(b[1], 4),
               AuthMethod |-> b[1] % 16, PaddingLen |-> 0, Data |-> <<>>]
        d1 == IF d0.Padding THEN [d0 EXCEPT !.PaddingLen = b[Len(b)]] ELSE d0
    IN  IF d1.Padding /\ d1.PaddingLen > Len(b) - 1
        THEN [d |-> d1, err |-> ErrPadding]
        ELSE [d |-> [d1 EXCEPT !.Data = Slice(b, 1, Len(b) - d1.PaddingLen)],
              err |-> NoErr]

\* parseAuthData(b), b the AuthLen*4 bytes of the sub-header
parseAuthData(b) ==
    LET d0 == [present |-> TRUE, Version |-> b[1] \div 32, Padding |-> Bit(b[1], 4),
               AuthMethod |-> b[1] % 16, PaddingLen |-> 0, Data |-> <<>>]
    IN  IF d0.Version # 1 THEN [d |-> d0, err |-> ErrAuthVersion]
        ELSE LET d1 == IF d0.Padding THEN [d0 EXCEPT !.PaddingLen = b[Len(b)]] ELSE d0
             IN  IF d1.Padding /\ d1.PaddingLen > Len(b) - 1
                 THEN [d |-> d1, err |-> ErrPadding]
                 ELSE [d |-> [d1 EXCEPT !.Data = Slice(b, 1, Len(b) - d1.PaddingLen)],
                       err |-> NoErr]

\* Lines 137-138 had the implicit payload type taken a byte, as Parse of sap.go does
ParseHeaderPayloadTypeSkip(b, h, extent) ==
    IF h.Version # 0
    THEN IF Len(b) >= h.len + 3 /\ Slice(b, h.len, h.len + 3) = SDPMagic
         THEN Outcome([h EXCEPT !.PayloadType = SDPPayloadType, !.len = h.len + 1], NoErr,
                      Max(extent, h.len + 3))
         ELSE LET pltypelen == IndexNul(Slice(b, h.len, Len(b)))
              IN  IF pltypelen < 0
                  THEN Outcome(h, ErrPayloadType, Max(extent, Len(b)))
                  ELSE Outcome([h EXCEPT !.PayloadType = Slice(b, h.len, h.len + pltypelen),
                                         !.len = h.len + pltypelen + 1],
                               NoErr, Max(extent, h.len + pltypelen + 1))
    ELSE Outcome([h EXCEPT !.PayloadType = SDPPayloadType], NoErr, extent)

\* Line 145 had the NUL byte not been counted
ParseHeaderPayloadTypeNoNul(b, h, extent) ==
    IF h.Version # 0
    THEN IF Len(b) >= h.len + 3 /\ Slice(b, h.len, h.len + 3) = SDPMagic
         THEN Outcome([h EXCEPT !.PayloadType = SDPPayloadType], NoErr,
                      Max(extent, h.len + 3))
         ELSE LET pltypelen == IndexNul(Slice(b, h.len, Len(b)))
              IN  IF pltypelen < 0
                  THEN Outcome(h, ErrPayloadType, Max(extent, Len(b)))
                  ELSE Outcome([h EXCEPT !.PayloadType = Slice(b, h.len, h.len + pltypelen),
                                         !.len = h.len + pltypelen],
                               NoErr, Max(extent, h.len + pltypelen + 1))
    ELSE Outcome([h EXCEPT !.PayloadType = SDPPayloadType], NoErr, extent)

\* ParseHeader, the payload type block (packet.go 135-151)
ParseHeaderPayloadType(b, h, extent) ==
    IF h.Version # 0
    THEN IF Len(b) >= h.len + 3 /\ Slice(b, h.len, h.len + 3) = SDPMagic
         THEN Outcome([h EXCEPT !.PayloadType = SDPPayloadType], NoErr,
                      Max(extent, h.len + 3))
         ELSE LET pltypelen == IndexNul(Slice(b, h.len, Len(b)))
              IN  IF pltypelen < 0
                  THEN Outcome(h, ErrPayloadType, Max(extent, Len(b)))
                  ELSE Outcome([h EXCEPT !.PayloadType = Slice(b, h.len, h.len + pltypelen),
                                         !.len = h.len + pltypelen + 1],
                               NoErr, Max(extent, h.len + pltypelen + 1))
    ELSE Outcome([h EXCEPT !.PayloadType = SDPPayloadType], NoErr, extent)

\* ParseHeader, the authentication block (packet.go 123-133)
ParseHeaderAuth(b, h, extent) ==
    IF h.AuthLen > 0
    THEN IF Len(b) < h.len + h.AuthLen * 4
         THEN Outcome(h, ErrHeaderLen, extent)
         ELSE LET a == parseAuthData(Slice(b, h.len, h.len + h.AuthLen * 4))
                  e == Max(extent, h.len + h.AuthLen * 4)
              IN  IF a.err # NoErr
                  THEN Outcome(h, a.err, e)
                  ELSE ParseHeaderPayloadType(b,
                           [h EXCEPT !.len = h.len + h.AuthLen * 4, !.AuthData = a.d], e)
    ELSE ParseHeaderPayloadType(b, h, extent)

\* ParseHeader, the address block (packet.go 109-121)
ParseHeaderAddr(b, h) ==
    IF ~h.AddressType
    THEN IF Len(b) < h.len + 4
         THEN Outcome(h, ErrHeaderLen, 4)
         ELSE ParseHeaderAuth(b, [h EXCEPT !.OrigSrc = Slice(b, 4, 8), !.len = h.len + 4], 8)
    ELSE IF Len(b) < h.len + 16
         THEN Outcome(h, ErrHeaderLen, 4)
         ELSE ParseHeaderAuth(b, [h EXCEPT !.OrigSrc = Slice(b, 4, 20), !.len = h.len + 16], 20)

\* The first byte as ParseHeader takes it apart (packet.go 93-103)
ParseHeaderFlags(b) ==
    [ZeroHeader EXCEPT
        !.Version = b[1] \div 32,
        !.AddressType = Bit(b[1], 4),
        !.Reserved = Bit(b[1], 3),
        !.Type = Bit(b[1], 2),
        !.Compressed = Bit(b[1], 1),
        !.Encrypted = Bit(b[1], 0),
        !.AuthLen = b[2],
        !.IDHash = b[4] + b[3] * 256,
        !.len = 4]

\* Lines 105-108 had the version not been checked
ParseHeaderAnyVersion(b) ==
    IF Len(b) < 4 THEN Outcome(ZeroHeader, ErrHeaderLen, 0)
    ELSE ParseHeaderAddr(b, ParseHeaderFlags(b))

\* ParseHeader(b)
ParseHeader(b) ==
    IF Len(b) < 4 THEN Outcome(ZeroHeader, ErrHeaderLen, 0)
    ELSE LET header == ParseHeaderFlags(b)
         IN  IF header.Version > 1 THEN Outcome(header, ErrVersion, 4)
             ELSE ParseHeaderAddr(b, header)


(***************************************************************************)
(* sap/sap.go: Parse, the decoder of the earlier revision.  bk is the      *)
(* backing array of b (b is a prefix of it, bk(b) = Len(bk)): b[lo:hi]    *)
(* panics when hi > bk(b), and reads the backing array past the length of *)
(* b when len(b) < hi <= bk(b).                                           *)
(***************************************************************************)
\* Parse, the payload type block and the payload (sap.go 196-217)
ParsePayloadType(b, bk, h, extent) ==
    IF h.len > Len(b) THEN Outcome(h, ErrPanic, Max(extent, h.len))   \* b[header.Len:]
    ELSE IF h.Version # 0
    THEN IF Len(b) >= h.len + 3 /\ Slice(b, h.len, h.len + 3) = SDPMagic
         THEN IF h.len + 1 > Len(b)
              THEN Outcome(h, ErrPanic, Max(extent, h.len + 3))
              ELSE Outcome([h EXCEPT !.PayloadType = SDPPayloadType, !.len = h.len + 1,
                                     !.Payload = Slice(b, h.len + 1, Len(b))],
                           NoErr, Max(extent, h.len + 3))
         ELSE LET pltypelen == IndexNul(Slice(b, h.len, Len(b)))
              IN  IF pltypelen < 0 THEN Outcome(h, ErrPayloadType, Max(extent, Len(b)))
                  ELSE IF h.len + pltypelen + 1 > Len(b)
                  THEN Outcome(h, ErrHeaderLen, Max(extent, Len(b)))
                  ELSE Outcome([h EXCEPT
                                   !.PayloadType = Slice(b, h.len, h.len + pltypelen),
                                   !.len = h.len + pltypelen + 1,
                                   !.Payload = Slice(b, h.len + pltypelen + 1, Len(b))],
                               NoErr, Max(extent, h.len + pltypelen + 1))
    ELSE Outcome([h EXCEPT !.PayloadType = SDPPayloadType,
                           !.Payload = Slice(b, h.len, Len(b))], NoErr, extent)

\* Parse, the authentication block (sap.go 188-194): kept as raw bytes
ParseAuth(b, bk, h, extent) ==
    IF h.AuthLen > 0
    THEN IF Len(b) < h.len + h.AuthLen * 4
         THEN Outcome(h, ErrHeaderLen, extent)
         ELSE ParsePayloadType(b, bk,
                  [h EXCEPT !.AuthData = Slice(b, h.len, h.len + h.AuthLen * 4),
                            !.len = h.len + h.AuthLen * 4],
                  Max(extent, h.len + h.AuthLen * 4))
    ELSE ParsePayloadType(b, bk, h, extent)

\* Parse, the address block (sap.go 174-186)
ParseAddr(b, bk, h) ==
    IF ~h.AddressType
    THEN IF Len(b) < h.len + 4
         THEN Outcome(h, ErrHeaderLen, 4)
         ELSE ParseAuth(b, bk, [h EXCEPT !.OrigSrc = Slice(b, 4, 8), !.len = h.len + 4], 8)
    ELSE IF Len(b) < h.len + 6
         THEN Outcome(h, ErrHeaderLen, 4)
         ELSE IF 20 > Len(bk)
         THEN Outcome(h, ErrPanic, 20)
         ELSE ParseAuth(b, bk,
                  [h EXCEPT !.OrigSrc = Slice(bk, 4, 20), !.len = h.len + 16], 20)

\* The first byte as Parse takes it apart (sap.go 158-168)
ParseFlags(b) ==
    [Version |-> b[1] \div 32,
     AddressType |-> Bit(b[1], 4),
     Reserved |-> Bit(b[1], 7),
     Type |-> Bit(b[1], 6),
     Compressed |-> Bit(b[1], 5),
     Encrypted |-> Bit(b[1], 4),
     AuthLen |-> b[2],
     IDHash |-> b[4] + b[3] * 256,
     AuthData |-> <<>>, OrigSrc |-> <<>>, PayloadType |-> <<>>, Payload |-> <<>>,
     len |-> 4]

\* Parse(b)
Parse(b, bk) ==
    IF Len(b) < 4
    THEN Outcome([ParseFlags(<<0, 0, 0, 0>>) EXCEPT !.len = 0], ErrHeaderLen, 0)
    ELSE LET header == ParseFlags(b)
         IN  IF header.Version > 1 THEN Outcome(header, ErrVersion, 4)
             ELSE ParseAddr(b, bk, header)

(***************************************************************************)
(* sap/packet.go: the encoder.                                             *)
(***************************************************************************)
\* net.IP.To4: the 4-byte form of an IPv4 or IPv4-mapped address, else nil (<<>>)
To4(ip) ==
    IF Len(ip) = 4 THEN ip
    ELSE IF Len(ip) = 16 /\ (\A i \in 1..10 : ip[i] = 0) /\ ip[11] = 255 /\ ip[12] = 255
    THEN Slice(ip, 12, 16)
    ELSE <<>>

\* net.IP.To16: the 16-byte form of an address, else nil (<<>>)
To16(ip) ==
    IF Len(ip) = 4 THEN <<0, 0, 0, 0, 0, 0, 0, 0, 0, 0, 255, 255>> \o ip
    ELSE IF Len(ip) = 16 THEN ip
    ELSE <<>>

\* AuthData.reflowPadding: the word count and the AuthData it leaves behind.
\* authlen is a uint8.
reflowPadding(a) ==
    LET authlen0 == (Len(a.Data) + 1) % 256
        authlen1 == IF a.Padding THEN (authlen0 + a.PaddingLen) % 256 ELSE authlen0
    IN  IF authlen1 % 4 # 0
        THEN LET authlen2 == (authlen1 - a.PaddingLen) % 256
             IN  [words |-> (authlen2 \div 4) + 1,
                  a |-> [a EXCEPT !.PaddingLen = (4 - ((Len(a.Data) + 1) % 4)) % 256,
                                  !.Padding = TRUE]]
        ELSE [words |-> authlen1 \div 4, a |-> a]

\* recomputeLen leaving the AddressType field as the caller left it
recomputeLenKeepAddressType(h) ==
    LET r == IF h.AuthData.present THEN reflowPadding(h.AuthData)
             ELSE [words |-> h.AuthLen, a |-> h.AuthData]
    IN  [h EXCEPT !.AuthLen = r.words,
                  !.AuthData = r.a,
                  !.len = 4 + r.words * 4 + (IF ~h.AddressType THEN 4 ELSE 16)
                          + (IF h.Version # 0 THEN Len(h.PayloadType) + 1 ELSE 0)]

\* Header.recomputeLen: the header with AuthLen, AddressType, len (and the
\* padding of its AuthData) recomputed
recomputeLen(h) ==
    LET r == IF h.AuthData.present THEN reflowPadding(h.AuthData)
             ELSE [words |-> h.AuthLen, a |-> h.AuthData]
        at == (To4(h.OrigSrc) = <<>>)
    IN  [h EXCEPT !.AuthLen = r.words,
                  !.AuthData = r.a,
                  !.AddressType = at,
                  !.len = 4 + r.words * 4 + (IF ~at THEN 4 ELSE 16)
                          + (IF h.Version # 0 THEN Len(h.PayloadType) + 1 ELSE 0)]

\* Packet.Length
Length(h, p) == recomputeLen(h).len + Len(p)

\* AuthData.writeBinary(b): the block written, or a panic (index out of range)
AuthWriteBinary(a, b) ==
    LET b0 == SetAt(b, 0, (((a.Version * 32) % 256) + booluint8(a.Padding) * 16
                           + a.AuthMethod) % 256)
        b1 == CopyAt(b0, 1, a.Data)
    IN  IF ~a.Padding THEN [b |-> b1, panic |-> FALSE]
        ELSE IF 1 + Len(a.Data) > Len(b) \/ Len(a.Data) + a.PaddingLen >= Len(b)
        THEN [b |-> b1, panic |-> TRUE]
        ELSE [b |-> SetAt(CopyAt(b1, 1 + Len(a.Data), [i \in 1..a.PaddingLen |-> 0]),
                          Len(a.Data) + a.PaddingLen, a.PaddingLen),
              panic |-> FALSE]

\* The first byte as WriteBinary packs it (packet.go 189)
WriteFlags(p) ==
    (((p.Version * 32) % 256) + booluint8(p.AddressType) * 16 + booluint8(p.Reserved) * 8
     + booluint8(p.Type) * 4 + booluint8(p.Encrypted) * 2 + booluint8(p.Compressed)) % 256

\* WriteBinary from the payload type on (packet.go 206-214)
WriteTail(p, pl, b, curlen) ==
    LET b1 == IF p.Version = 1
              THEN SetAt(CopyAt(b, curlen, p.PayloadType), curlen + Len(p.PayloadType), 0)
              ELSE b
        c1 == IF p.Version = 1 THEN curlen + Len(p.PayloadType) + 1 ELSE curlen
    IN  [n |-> c1 + Len(pl), err |-> NoErr, b |-> CopyAt(b1, c1, pl), h |-> p]

\* The size test of WriteBinary on the header length alone
TooSmallHeaderOnly(p, pl, b) == Len(b) < p.len

\* The size test of WriteBinary (packet.go 185), p being the recomputed header
TooSmall(p, pl, b) == Len(b) < p.len + Len(pl)

\* Packet.WriteBinary(b) of the packet (h, pl): the count and error returned, the
\* destination b and the header as the call leaves them
WriteBinary(h, pl, b) ==
    LET p == recomputeLen(h)
    IN  IF TooSmall(p, pl, b) THEN [n |-> 0, err |-> ErrTooSmall, b |-> b, h |-> p]
        ELSE LET b0 == SetAt(SetAt(SetAt(SetAt(b, 0, WriteFlags(p)), 1, p.AuthLen),
                                   2, p.IDHash \div 256), 3, p.IDHash % 256)
                 b1 == IF ~p.AddressType THEN CopyAt(b0, 4, To4(p.OrigSrc))
                       ELSE CopyAt(b0, 4, Slice(p.OrigSrc, 0, Min(16, Len(p.OrigSrc))))
                 curlen == IF ~p.AddressType THEN 8 ELSE 20
             IN  IF p.AuthLen # 0
                 THEN IF ~p.AuthData.present
                      THEN [n |-> 0, err |-> ErrPanic, b |-> b1, h |-> p]  \* nil dereference
                      ELSE LET w == AuthWriteBinary(p.AuthData,
                                        Slice(b1, curlen, curlen + p.AuthLen * 4))
                           IN  IF w.panic
                               THEN [n |-> 0, err |-> ErrPanic,
                                     b |-> CopyAt(b1, curlen, w.b), h |-> p]
                               ELSE WriteTail(p, pl, CopyAt(b1, curlen, w.b),
                                              curlen + p.AuthLen * 4)
                 ELSE WriteTail(p, pl, b1, curlen)

(***************************************************************************)
(* Inputs of the codec runs.                                               *)
(***************************************************************************)
\* 32.127.0.0, its IPv4-mapped 16-byte form, and ::c0f1:3198:207f:0
Addr4 == <<32, 127, 0, 0>>
Addr4in6 == <<0, 0, 0, 0, 0, 0, 0, 0, 0, 0, 255, 255, 32, 127, 0, 0>>
Addr6 == <<0, 0, 0, 0, 0, 0, 0, 0, 192, 241, 49, 152, 32, 127, 0, 0>>

\* The first n bytes of an authentication payload, and of an SDP payload "v=0\r\n"
AuthBytes(n) == [i \in 1..n |-> 160 + i]
PayloadBytes(n) == [i \in 1..n |-> IF i <= 5 THEN <<118, 61, 48, 13, 10>>[i] ELSE 97]

\* "bpplication/sdp", the payload type of test packet 11
OtherPayloadType == <<98>> \o Slice(SDPPayloadType, 1, 15)

InputAuthData ==
    {NoAuth} \cup
    [present : {TRUE}, Version : {1}, Padding : BOOLEAN, AuthMethod : {1},
     PaddingLen : 0..MaxPaddingLen, Data : {AuthBytes(n) : n \in 0..MaxDataLen}]

\* Headers a caller may hand to WriteBinary: AddressType, AuthLen and len hold
\* whatever an earlier use left in them.
InputHeaders ==
    {h \in [Version : {0, 1}, AddressType : BOOLEAN, Reserved : BOOLEAN, Type : BOOLEAN,
            Compressed : BOOLEAN, Encrypted : BOOLEAN, AuthLen : {0, 1}, IDHash : {63536},
            AuthData : InputAuthData, OrigSrc : {Addr4, Addr4in6, Addr6},
            PayloadType : {SDPPayloadType, OtherPayloadType}, len : {0}] :
        h.Version = 0 => h.PayloadType = SDPPayloadType}

InputPayloads == {PayloadBytes(n) : n \in {0, MaxPayloadLen}}

\* The destination buffer of an encode: exactly Length() bytes, none written yet
FreshByte == 238
Dst(n) == [i \in 1..n |-> FreshByte]

\* No outcome yet
None == [err |-> "none"]

(***************************************************************************)
(* The codec runs: encode a packet, decode the bytes, decode a prefix.     *)
(***************************************************************************)
\* Packet.WriteBinary into a buffer of Length() bytes
Encode ==
    /\ cpc = "input"
    /\ wr' = WriteBinary(hdr, payload, Dst(Length(hdr, payload)))
    /\ buf' = IF wr'.err = NoErr THEN Slice(wr'.b, 0, wr'.n) ELSE <<>>
    /\ cpc' = IF wr'.err = NoErr THEN "encoded" ELSE "failed"
    /\ UNCHANGED <<hdr, payload, dec, full>>
    /\ UNCHANGED <<accVars, filterVars, streamVars, rtpVars, earlierVars>>

\* The destination lengths a caller may hand to WriteBinary around need bytes
DstLens(need) ==
    {Max(0, need - k) : k \in 1..MaxShort} \cup {need + k : k \in 0..MaxSlack}

\* Packet.WriteBinary into a buffer the caller sized: too short, exact or longer
EncodeInto ==
    /\ cpc = "input"
    /\ \E n \in DstLens(Length(hdr, payload)) :
           wr' = WriteBinary(hdr, payload, Dst(n))
    /\ buf' = IF wr'.err = NoErr THEN Slice(wr'.b, 0, wr'.n) ELSE <<>>
    /\ cpc' = IF wr'.err = NoErr THEN "encoded" ELSE "failed"
    /\ UNCHANGED <<hdr, payload, dec, full>>
    /\ UNCHANGED <<accVars, filterVars, streamVars, rtpVars, earlierVars>>

\* Conn.Read (network.go 59-72) after the socket read: ParseHeader, then the payload
ConnRead(b) ==
    LET o == ParseHeader(b)
    IN  [by |-> "ParseHeader", h |-> o.h, err |-> o.err, extent |-> o.extent,
         Payload |-> IF o.err = NoErr THEN Slice(b, o.h.len, Len(b)) ELSE <<>>]

\* The earlier revision's decode (sap.go 131) of the buffer b backed by bk
OldRead(b, bk) ==
    LET o == Parse(b, bk)
    IN  [by |-> "Parse", h |-> o.h, err |-> o.err, extent |-> o.extent,
         Payload |-> IF o.err = NoErr THEN o.h.Payload ELSE <<>>]

\* The backing arrays a buffer b comes with: b itself (a slice of its own
\* length), or the zeroed receive buffer of initialMTU bytes (sap.go 113, 131)
initialMTU == 1500
Backings(b) == {b, [i \in 1..initialMTU |-> IF i <= Len(b) THEN b[i] ELSE StaleByte]}

DecodeHeader ==
    /\ cpc \in {"encoded", "raw"}
    /\ dec' = ConnRead(buf)
    /\ full' = dec'
    /\ cpc' = "decoded"
    /\ UNCHANGED <<hdr, payload, wr, buf>>
    /\ UNCHANGED <<accVars, filterVars, streamVars, rtpVars, earlierVars>>

DecodeOld ==
    /\ cpc \in {"encoded", "raw"}
    /\ \E bk \in Backings(buf) : dec' = OldRead(buf, bk)
    /\ full' = dec'
    /\ cpc' = "decoded"
    /\ UNCHANGED <<hdr, payload, wr, buf>>
    /\ UNCHANGED <<accVars, filterVars, streamVars, rtpVars, earlierVars>>

\* The same decoder on a strict prefix of an accepted buffer, shorter than the
\* header length it returned (for Parse the receive buffer may also still hold
\* the rest of the accepted datagram: streamDecode reuses it)
Truncate ==
    /\ cpc = "decoded"
    /\ dec.err = NoErr
    /\ \E n \in 0..(dec.h.len - 1) :
        /\ n < Len(buf)
        /\ buf' = Slice(buf, 0, n)
        /\ \/ dec.by = "ParseHeader" /\ dec' = ConnRead(buf')
           \/ dec.by = "Parse" /\ \E bk \in Backings(buf') \cup {buf} : dec' = OldRead(buf', bk)
    /\ cpc' = "truncated"
    /\ UNCHANGED <<hdr, payload, wr, full>>
    /\ UNCHANGED <<accVars, filterVars, streamVars, rtpVars, earlierVars>>

(***************************************************************************)
(* The packets of the decoder's tests (testPackets), as bytes.              *)
(***************************************************************************)
TestPacket1 ==
    <<48, 0, 248, 48, 0, 0, 0, 0, 0, 0, 0, 0, 192, 241, 49, 152, 32, 127, 0, 0, 97,
      112, 112, 108, 105, 99, 97, 116, 105, 111, 110, 47, 115, 100, 112, 0>>
TestPacket2 ==
    <<32, 0, 248, 48, 32, 127, 0, 0, 97, 112, 112, 108, 105, 99, 97, 116, 105, 111,
      110, 47, 115, 100, 112, 0>>
TestPacket3 ==
    <<48, 0, 248, 48, 0, 0, 0, 0, 0, 0, 0, 0, 192, 241, 49, 152, 32, 127, 0, 0, 118,
      61, 48, 13, 10>>
TestPacket4 ==
    <<16, 0, 248, 48, 0, 0, 0, 0, 0, 0, 0, 0, 192, 241, 49, 152, 32, 127, 0, 0>>
TestPacket5 ==
    <<48, 0, 248, 48, 0, 0, 0, 0, 0, 0, 0, 0, 192, 241, 49, 152, 32, 127, 0, 0, 97,
      112, 112, 108, 105, 99, 97, 116, 105, 111, 110, 47, 115, 100, 112, 0, 119, 61,
      48, 13, 10>>
TestPacket6 ==
    <<48, 0, 248, 48, 0, 0, 0, 0, 0, 0, 0, 0, 192, 241, 49, 152, 32, 127, 0, 0, 111,
      61, 77, 117, 77, 117, 68, 86, 66, 32, 51, 53, 54, 52, 52, 51, 32, 49, 32, 73, 78,
      32, 73, 80, 54, 32, 102, 102, 49, 53, 58, 52, 50, 52, 50, 58, 58, 48, 58, 49, 58,
      48, 52, 48, 49, 58, 48>>
TestPacket7 ==
    <<80, 0, 248, 48, 0, 0, 0, 0, 0, 0, 0, 0, 192, 241, 49, 152, 32, 127, 0, 0, 97,
      112, 112, 108, 105, 99, 97, 116, 105, 111, 110, 47, 115, 100, 112, 0>>
TestPacket8 ==
    <<48>>
TestPacket9 ==
    <<48, 0, 248, 48, 0, 0, 0, 0, 0, 0, 0, 0, 192, 241, 49>>
TestPacket10 ==
    <<32, 0, 248, 53, 161, 40>>
TestPacket11 ==
    <<48, 0, 248, 48, 0, 0, 0, 0, 0, 0, 0, 0, 192, 241, 49, 152, 32, 127, 0, 0, 98,
      112, 112, 108, 105, 99, 97, 116, 105, 111, 110, 47, 115, 100, 112, 0, 118, 61,
      48, 13, 10>>
TestPacket12 ==
    <<48, 240, 248, 48, 0, 0, 0, 0, 0, 0, 0, 0, 192, 241, 49, 152, 32, 127, 0, 0, 97,
      112, 112, 108, 105, 99, 97, 116, 105, 111, 110, 47, 115, 100, 112, 0, 119, 61,
      48, 13, 10>>
TestPacket13 ==
    <<48, 1, 248, 48, 0, 0, 0, 0, 0, 0, 0, 0, 192, 241, 49, 152, 32, 127, 0, 0, 48, 0,
      0, 3, 97, 112, 112, 108, 105, 99, 97, 116, 105, 111, 110, 47, 115, 100, 112, 0>>
TestPacket14 ==
    <<48, 1, 248, 48, 0, 0, 0, 0, 0, 0, 0, 0, 192, 241, 49, 152, 32, 127, 0, 0, 48, 0,
      0, 19, 97, 112, 112, 108, 105, 99, 97, 116, 105, 111, 110, 47, 115, 100, 112, 0>>
TestPacket15 ==
    <<48, 1, 248, 48, 0, 0, 0, 0, 0, 0, 0, 0, 192, 241, 49, 152, 32, 127, 0, 0, 112, 0,
      0, 3, 97, 112, 112, 108, 105, 99, 97, 116, 105, 111, 110, 47, 115, 100, 112, 0>>

testPackets ==
    {TestPacket1, TestPacket2, TestPacket3, TestPacket4, TestPacket5, TestPacket6, TestPacket7, TestPacket8,
     TestPacket9, TestPacket10, TestPacket11, TestPacket12, TestPacket13, TestPacket14, TestPacket15}

(***************************************************************************)
(* sap/packet.go ParseSDP and sap/network.go SDPConn.Read: from a datagram *)
(* to a decoded announcement.                                              *)
(***************************************************************************)
ErrNotSDP == "invalid payload type"
ErrSDP == "sdp parse error"

\* sdp.Parse of the external package, as far as the tests of this repository
\* pin it down: an empty payload and a payload starting with "v=0" parse, the
\* description being the text; anything else is rejected.
sdpParse(p) ==
    IF Len(p) = 0 \/ (Len(p) >= 3 /\ Slice(p, 0, 3) = SDPMagic)
    THEN [err |-> NoErr, desc |-> p]
    ELSE [err |-> ErrSDP, desc |-> <<>>]

\* ParseSDP handing every payload to the parser, whatever the payload type
ParseSDPAnyType(r) ==
    LET d == sdpParse(r.Payload)
    IN  IF d.err # NoErr THEN [err |-> d.err, parserCalled |-> TRUE]
        ELSE [err |-> NoErr, parserCalled |-> TRUE, Header |-> r.h,
              IDHash |-> r.h.IDHash, OrigSrc |-> r.h.OrigSrc, Type |-> r.h.Type,
              Payload |-> d.desc]

\* Packet.ParseSDP of the packet Conn.Read returned: the error and, when there
\* is none, the SDPPacket (its Header, the fields of the embedded Header the
\* accumulator reads, and its Payload); parserCalled records whether sdp.Parse
\* was invoked.  A result without Header and Payload is a nil *SDPPacket.
ParseSDP(r) ==
    IF r.h.PayloadType # SDPPayloadType THEN [err |-> ErrNotSDP, parserCalled |-> FALSE]
    ELSE LET d == sdpParse(r.Payload)
         IN  IF d.err # NoErr THEN [err |-> d.err, parserCalled |-> TRUE]
             ELSE [err |-> NoErr, parserCalled |-> TRUE, Header |-> r.h,
                   IDHash |-> r.h.IDHash, OrigSrc |-> r.h.OrigSrc, Type |-> r.h.Type,
                   Payload |-> d.desc]

\* SDPConn.Read once the socket read has delivered the datagram d
SDPConnRead(d) ==
    LET r == ConnRead(d)
    IN  IF r.err # NoErr THEN [err |-> r.err] ELSE ParseSDP(r)

\* Datagrams on the wire.  Announcements of 32.127.0.0 with hash 0xf830 (as an
\* IPv4 origin, and as the IPv4-mapped IPv6 origin with another description)
\* and a deletion (Type bit set) from 32.127.0.0 with hash 0xf831; a 1-byte
\* datagram and one whose payload type is not application/sdp (test packets 8
\* and 11).
DescA == <<118, 61, 48, 13, 10>>
DescB == <<118, 61, 48, 13, 10, 115>>
DgV4 == <<32, 0, 248, 48>> \o Addr4 \o DescA
DgMapped == <<48, 0, 248, 48>> \o Addr4in6 \o DescB
DgHash == <<36, 0, 248, 49>> \o Addr4 \o DescA
DgShort == TestPacket8
DgNotSDP == TestPacket11
Datagrams == {DgV4, DgMapped, DgHash, DgShort, DgNotSDP}

(***************************************************************************)
(* sap/network.go: the accumulator.                                        *)
(***************************************************************************)
Waiters == {"w1", "w2"}

\* The filters handed to Iterator: every entry, or ChannelList (filters.go 24-33)
Filters == {[kind |-> "all"], [kind |-> "list", names |-> {DescB}]}
Filter(f, v) == f.kind = "all" \/ v.Description \in f.names

EmptyMap == [k \in {} |-> 0]
Put(m, k, v) == [x \in DOMAIN m \cup {k} |-> IF x = k THEN v ELSE m[x]]

\* A key that takes the origin address as it came, 4 or 16 bytes
origHashRaw(p) == <<p.IDHash, p.OrigSrc>>

\* origHash of the announcement p (network.go 158-159)
origHash(p) == <<p.IDHash, To16(p.OrigSrc)>>

\* A Lock that would not wait for the readers
CanLockDespiteReaders == ~rw.writer

\* sync.RWMutex: Lock and RLock may proceed
CanLock == ~rw.writer /\ rw.readers = 0
CanRLock == ~rw.writer

NoPkt == [err |-> "none"]
NoChannel == [Count |-> 0]

itVars == <<itPc, itTodo, itCh, itCap, itFilter, itSnap, itSent>>
wVars == <<wPc, trueReturns, lateTrue>>

\* What the history records of an ingest of p
Ingested(p) ==
    LET k == <<p.IDHash, To16(p.OrigSrc)>>
    IN  Put(seen, k, [n |-> IF k \in DOMAIN seen THEN seen[k].n + 1 ELSE 1,
                      last |-> p.Payload])

\* countStreams: channels.conn.Read() returns an announcement
CsRead ==
    /\ csPc = "read" /\ ~connClosed /\ ~sockErr
    /\ ingests < MaxIngest
    /\ \E d \in Datagrams :
        /\ SDPConnRead(d).err = NoErr
        /\ csPkt' = SDPConnRead(d)
    /\ csPc' = "lock"
    /\ UNCHANGED <<lifetimes, rw, notifClosed, connClosed, clock, channel, csNow,
                   seen, ingests, decodeErrs, sockErr>>
    /\ UNCHANGED wVars /\ UNCHANGED itVars
    /\ UNCHANGED <<codecVars, filterVars, streamVars, rtpVars, earlierVars>>

\* countStreams: the socket read succeeds and ParseHeader or ParseSDP rejects
\* the datagram: Read returns the error, the loop breaks
CsReadReject ==
    /\ csPc = "read" /\ ~connClosed /\ ~sockErr
    /\ \E d \in Datagrams : SDPConnRead(d).err # NoErr
    /\ decodeErrs' = decodeErrs + 1
    /\ csPc' = "close"
    /\ UNCHANGED <<lifetimes, rw, notifClosed, connClosed, clock, csPkt, channel, csNow,
                   seen, ingests, sockErr>>
    /\ UNCHANGED wVars /\ UNCHANGED itVars
    /\ UNCHANGED <<codecVars, filterVars, streamVars, rtpVars, earlierVars>>

\* countStreams: the socket read fails, because Close() closed the connection
\* or on its own: the loop breaks
CsReadFail ==
    /\ csPc = "read"
    /\ \/ connClosed /\ UNCHANGED sockErr
       \/ ~connClosed /\ sockErr' = TRUE
    /\ csPc' = "close"
    /\ UNCHANGED <<lifetimes, rw, notifClosed, connClosed, clock, csPkt, channel, csNow,
                   seen, ingests, decodeErrs>>
    /\ UNCHANGED wVars /\ UNCHANGED itVars
    /\ UNCHANGED <<codecVars, filterVars, streamVars, rtpVars, earlierVars>>

\* countStreams: channels.Lock() and the lookup (network.go 158-161)
CsLock ==
    /\ csPc = "lock"
    /\ CanLock
    /\ rw' = [rw EXCEPT !.writer = TRUE]
    /\ IF origHash(csPkt) \in DOMAIN lifetimes
       THEN channel' = lifetimes[origHash(csPkt)] /\ csPc' = "interval"
       ELSE channel' = NoChannel /\ csPc' = "insert"
    /\ UNCHANGED <<lifetimes, notifClosed, connClosed, clock, csPkt, csNow,
                   seen, ingests, decodeErrs, sockErr>>
    /\ UNCHANGED wVars /\ UNCHANGED itVars
    /\ UNCHANGED <<codecVars, filterVars, streamVars, rtpVars, earlierVars>>

\* Line 162 had it stored the reading itself
CsIntervalNoSub ==
    /\ csPc = "interval"
    /\ \E t \in clock..MaxClock :
        /\ clock' = t
        /\ csNow' = t
        /\ channel' = [channel EXCEPT !.Interval = t]
    /\ csPc' = "store"
    /\ UNCHANGED <<lifetimes, rw, notifClosed, connClosed, csPkt,
                   seen, ingests, decodeErrs, sockErr>>
    /\ UNCHANGED wVars /\ UNCHANGED itVars
    /\ UNCHANGED <<codecVars, filterVars, streamVars, rtpVars, earlierVars>>

\* countStreams: channel.Interval = time.Now().Sub(channel.Last) (network.go 162)
CsInterval ==
    /\ csPc = "interval"
    /\ \E t \in clock..MaxClock :
        /\ clock' = t
        /\ csNow' = t
        /\ channel' = [channel EXCEPT !.Interval = t - channel.Last]
    /\ csPc' = "store"
    /\ UNCHANGED <<lifetimes, rw, notifClosed, connClosed, csPkt,
                   seen, ingests, decodeErrs, sockErr>>
    /\ UNCHANGED wVars /\ UNCHANGED itVars
    /\ UNCHANGED <<codecVars, filterVars, streamVars, rtpVars, earlierVars>>

\* Lines 163-165 had a deletion announcement removed the entry instead
CsStoreOrDelete ==
    /\ csPc = "store"
    /\ \E t \in clock..MaxClock :
        /\ clock' = t
        /\ channel' = [channel EXCEPT !.Last = t, !.Count = channel.Count + 1]
    /\ lifetimes' = IF csPkt.Type
                    THEN [k \in DOMAIN lifetimes \ {origHash(csPkt)} |-> lifetimes[k]]
                    ELSE Put(lifetimes, origHash(csPkt), channel')
    /\ seen' = Ingested(csPkt)
    /\ ingests' = ingests + 1
    /\ csPc' = "unlock"
    /\ UNCHANGED <<rw, notifClosed, connClosed, csPkt, csNow, decodeErrs, sockErr>>
    /\ UNCHANGED wVars /\ UNCHANGED itVars
    /\ UNCHANGED <<codecVars, filterVars, streamVars, rtpVars, earlierVars>>

\* countStreams: channel.Last = time.Now(); channel.Count++;
\* channels.lifetimes[hash] = channel (network.go 163-165)
CsStore ==
    /\ csPc = "store"
    /\ \E t \in clock..MaxClock :
        /\ clock' = t
        /\ channel' = [channel EXCEPT !.Last = t, !.Count = channel.Count + 1]
    /\ lifetimes' = Put(lifetimes, origHash(csPkt), channel')
    /\ seen' = Ingested(csPkt)
    /\ ingests' = ingests + 1
    /\ csPc' = "unlock"
    /\ UNCHANGED <<rw, notifClosed, connClosed, csPkt, csNow, decodeErrs, sockErr>>
    /\ UNCHANGED wVars /\ UNCHANGED itVars
    /\ UNCHANGED <<codecVars, filterVars, streamVars, rtpVars, earlierVars>>

\* countStreams: the first sighting (network.go 167)
CsInsert ==
    /\ csPc = "insert"
    /\ \E t \in clock..MaxClock :
        /\ clock' = t
        /\ lifetimes' = Put(lifetimes, origHash(csPkt),
                            [Description |-> csPkt.Payload, Hash |-> csPkt.IDHash,
                             Last |-> t, Interval |-> 0, Count |-> 1])
    /\ seen' = Ingested(csPkt)
    /\ ingests' = ingests + 1
    /\ csPc' = "unlock"
    /\ UNCHANGED <<rw, notifClosed, connClosed, csPkt, channel, csNow, decodeErrs, sockErr>>
    /\ UNCHANGED wVars /\ UNCHANGED itVars
    /\ UNCHANGED <<codecVars, filterVars, streamVars, rtpVars, earlierVars>>

\* The end of the loop body had it no send (line 170)
CsUnlockNoSend ==
    /\ csPc = "unlock"
    /\ rw' = [rw EXCEPT !.writer = FALSE]
    /\ csPc' = "read"
    /\ csPkt' = NoPkt /\ channel' = NoChannel /\ csNow' = 0
    /\ UNCHANGED <<lifetimes, notifClosed, connClosed, clock,
                   seen, ingests, decodeErrs, sockErr>>
    /\ UNCHANGED wVars /\ UNCHANGED itVars
    /\ UNCHANGED <<codecVars, filterVars, streamVars, rtpVars, earlierVars>>

\* countStreams: channels.Unlock() (network.go 169); p and channel, the loop
\* body's variables, are not used after it
CsUnlock ==
    /\ csPc = "unlock"
    /\ rw' = [rw EXCEPT !.writer = FALSE]
    /\ csPc' = "send"
    /\ csPkt' = NoPkt /\ channel' = NoChannel /\ csNow' = 0
    /\ UNCHANGED <<lifetimes, notifClosed, connClosed, clock,
                   seen, ingests, decodeErrs, sockErr>>
    /\ UNCHANGED wVars /\ UNCHANGED itVars
    /\ UNCHANGED <<codecVars, filterVars, streamVars, rtpVars, earlierVars>>

\* The send on a channel with room: it completes without a receiver
NotifyNoReceiver(w) ==
    /\ csPc = "send"
    /\ csPc' = "read"
    /\ UNCHANGED <<lifetimes, rw, notifClosed, connClosed, clock, csPkt, channel, csNow,
                   seen, ingests, decodeErrs, sockErr>>
    /\ UNCHANGED wVars /\ UNCHANGED itVars
    /\ UNCHANGED <<codecVars, filterVars, streamVars, rtpVars, earlierVars>>

\* channels.notifications <- true meets the receive of WaitChange caller w: the
\* channel is unbuffered, the send completes only with a receiver
\* (network.go 170 and 132-133)
Notify(w) ==
    /\ csPc = "send"
    /\ wPc[w] = "recv"
    /\ csPc' = "read"
    /\ wPc' = [wPc EXCEPT ![w] = "idle"]
    /\ trueReturns' = trueReturns + 1
    /\ lateTrue' = (lateTrue \/ connClosed)
    /\ UNCHANGED <<lifetimes, rw, notifClosed, connClosed, clock, csPkt, channel, csNow,
                   seen, ingests, decodeErrs, sockErr>>
    /\ UNCHANGED itVars
    /\ UNCHANGED <<codecVars, filterVars, streamVars, rtpVars, earlierVars>>

\* countStreams: close(channels.notifications) after the loop (network.go 173)
CsClose ==
    /\ csPc = "close"
    /\ notifClosed' = TRUE
    /\ csPc' = "done"
    /\ UNCHANGED <<lifetimes, rw, connClosed, clock, csPkt, channel, csNow,
                   seen, ingests, decodeErrs, sockErr>>
    /\ UNCHANGED wVars /\ UNCHANGED itVars
    /\ UNCHANGED <<codecVars, filterVars, streamVars, rtpVars, earlierVars>>

\* A caller enters WaitChange and blocks in the receive (network.go 132)
WaitChange(w) ==
    /\ wPc[w] = "idle"
    /\ wPc' = [wPc EXCEPT ![w] = "recv"]
    /\ UNCHANGED <<lifetimes, rw, notifClosed, connClosed, clock, csPc, csPkt, channel,
                   csNow, seen, ingests, trueReturns, lateTrue, decodeErrs, sockErr>>
    /\ UNCHANGED itVars
    /\ UNCHANGED <<codecVars, filterVars, streamVars, rtpVars, earlierVars>>

\* The receive of WaitChange on the closed channel: ok is false
WaitClosed(w) ==
    /\ wPc[w] = "recv"
    /\ notifClosed
    /\ wPc' = [wPc EXCEPT ![w] = "idle"]
    /\ UNCHANGED <<lifetimes, rw, notifClosed, connClosed, clock, csPc, csPkt, channel,
                   csNow, seen, ingests, trueReturns, lateTrue, decodeErrs, sockErr>>
    /\ UNCHANGED itVars
    /\ UNCHANGED <<codecVars, filterVars, streamVars, rtpVars, earlierVars>>

\* channelMap.Close: m.conn.Close() (network.go 136-138)
Close ==
    /\ ~connClosed
    /\ connClosed' = TRUE
    /\ UNCHANGED <<lifetimes, rw, notifClosed, clock, csPc, csPkt, channel, csNow,
                   seen, ingests, decodeErrs, sockErr>>
    /\ UNCHANGED wVars /\ UNCHANGED itVars
    /\ UNCHANGED <<codecVars, filterVars, streamVars, rtpVars, earlierVars>>

\* The capacity of an unbuffered result channel
IteratorCapUnbuffered == Cardinality({})

\* The capacity of the channel Iterator makes: len(m.lifetimes) (network.go 118)
IteratorCap == Cardinality(DOMAIN lifetimes)

\* channelMap.Iterator(f): RLock, make the channel, start the goroutine
\* (network.go 117-119)
Iterator(f) ==
    /\ itPc = "idle"
    /\ CanRLock
    /\ rw' = [rw EXCEPT !.readers = rw.readers + 1]
    /\ itCap' = IteratorCap
    /\ itCh' = <<>>
    /\ itTodo' = DOMAIN lifetimes
    /\ itFilter' = f
    /\ itSnap' = lifetimes
    /\ itSent' = <<>>
    /\ itPc' = "range"
    /\ UNCHANGED <<lifetimes, notifClosed, connClosed, clock, csPc, csPkt, channel, csNow,
                   seen, ingests, decodeErrs, sockErr>>
    /\ UNCHANGED wVars
    /\ UNCHANGED <<codecVars, filterVars, streamVars, rtpVars, earlierVars>>

\* The Iterator goroutine: one turn of the range loop, in the map's own order
\* (network.go 120-124); the send blocks while the channel is full
ItVisit ==
    /\ itPc = "range"
    /\ \E k \in itTodo :
        /\ IF Filter(itFilter, lifetimes[k])
           THEN /\ Len(itCh) < itCap
                /\ itCh' = Append(itCh, lifetimes[k])
                /\ itSent' = Append(itSent, [key |-> k, v |-> lifetimes[k]])
           ELSE UNCHANGED <<itCh, itSent>>
        /\ itTodo' = itTodo \ {k}
    /\ UNCHANGED <<itPc, itCap, itFilter, itSnap>>
    /\ UNCHANGED <<lifetimes, rw, notifClosed, connClosed, clock, csPc, csPkt, channel,
                   csNow, seen, ingests, decodeErrs, sockErr>>
    /\ UNCHANGED wVars
    /\ UNCHANGED <<codecVars, filterVars, streamVars, rtpVars, earlierVars>>

\* The Iterator goroutine after the loop: m.RUnlock() and close(ch), which
\* touches nothing another goroutine can see before the channel is drained
\* (network.go 125-126)
ItRUnlock ==
    /\ itPc = "range"
    /\ itTodo = {}
    /\ rw' = [rw EXCEPT !.readers = rw.readers - 1]
    /\ itPc' = "closed"
    /\ UNCHANGED <<itTodo, itCh, itCap, itFilter, itSnap, itSent>>
    /\ UNCHANGED <<lifetimes, notifClosed, connClosed, clock, csPc, csPkt, channel, csNow,
                   seen, ingests, decodeErrs, sockErr>>
    /\ UNCHANGED wVars
    /\ UNCHANGED <<codecVars, filterVars, streamVars, rtpVars, earlierVars>>

\* The caller of Iterator receives the next entry from the channel
ItRecv ==
    /\ itPc # "idle"
    /\ Len(itCh) > 0
    /\ itCh' = Tail(itCh)
    /\ UNCHANGED <<itPc, itTodo, itCap, itFilter, itSnap, itSent>>
    /\ UNCHANGED <<lifetimes, rw, notifClosed, connClosed, clock, csPc, csPkt, channel,
                   csNow, seen, ingests, decodeErrs, sockErr>>
    /\ UNCHANGED wVars
    /\ UNCHANGED <<codecVars, filterVars, streamVars, rtpVars, earlierVars>>

\* The caller's range over the channel ends: the channel is closed and empty
ItDone ==
    /\ itPc = "closed"
    /\ itCh = <<>>
    /\ itPc' = "idle"
    /\ itCap' = 0 /\ itFilter' = [kind |-> "all"] /\ itSnap' = EmptyMap /\ itSent' = <<>>
    /\ UNCHANGED <<itTodo, itCh>>
    /\ UNCHANGED <<lifetimes, rw, notifClosed, connClosed, clock, csPc, csPkt, channel,
                   csNow, seen, ingests, decodeErrs, sockErr>>
    /\ UNCHANGED wVars
    /\ UNCHANGED <<codecVars, filterVars, streamVars, rtpVars, earlierVars>>

(***************************************************************************)
(* Specifications.                                                         *)
(***************************************************************************)
\* The accumulator right after CountStreams (network.go 141-149)
\* ---------------------------------------------------------------------------
\* The liveness filters.  Times are in minutes; time.Now() is monotonic, so a
\* filter that reads it twice may get a later reading the second time.

\* time.Hour (filters.go line 37) and time.Minute*2 (sapdump.go line 43)
Hour == 60
TwoMinutes == 2

\* t.After(u) of package time
After(t, u) == t > u

\* sap.FilterNotExpired; now1 and now2 are its two readings of time.Now()
FilterNotExpired(e, now1, now2) ==
    After(e.Last + e.Interval * 10, now1) \/ After(e.Last + Hour, now2)

\* The filter of cmd/sapdump
filter(e, now1, now2) ==
    \/ After(e.Last + e.Interval * 10, now1)
    \/ (e.Count = 1 /\ After(e.Last + TwoMinutes, now2))

\* The entries the accumulator can hold: Count at least 1, Interval the
\* distance of two clock readings
InputLifetimes ==
    [Last : 0..MaxLast, Interval : 0..MaxInterval, Count : 1..MaxCount]

NoLifetime == [Last |-> 0, Interval |-> 0, Count |-> 0]
NoCall == [fn |-> "none", now1 |-> 0, now2 |-> 0, res |-> FALSE]

\* The clock readings a call made on e can get: not before e.Last
Readings(e) ==
    {r \in (e.Last..(e.Last + MaxElapsed)) \X (e.Last..(e.Last + MaxElapsed + MaxDelay)) :
        r[1] <= r[2] /\ r[2] <= r[1] + MaxDelay}

CallFilterNotExpired ==
    /\ flt.pc = "ready"
    /\ \E r \in Readings(flt.lf) :
         flt' = [flt EXCEPT
                   !.pc = "done",
                   !.call = [fn |-> "FilterNotExpired", now1 |-> r[1], now2 |-> r[2],
                             res |-> FilterNotExpired(flt.lf, r[1], r[2])]]
    /\ UNCHANGED <<codecVars, accVars, streamVars, rtpVars, earlierVars>>

CallFilter ==
    /\ flt.pc = "ready"
    /\ \E r \in Readings(flt.lf) :
         flt' = [flt EXCEPT
                   !.pc = "done",
                   !.call = [fn |-> "filter", now1 |-> r[1], now2 |-> r[2],
                             res |-> filter(flt.lf, r[1], r[2])]]
    /\ UNCHANGED <<codecVars, accVars, streamVars, rtpVars, earlierVars>>

\* ---------------------------------------------------------------------------
\* sap/sap.go: ListenSAP and the receive loop streamDecode.

ErrPayloadNotSDP == "Packet payload is not SDP"
ErrSocket == "read error"

\* A version 0 announcement
DgV0 == <<0, 0, 248, 48>> \o Addr4 \o DescA

\* Datagrams the socket of streamDecode delivers: the version 0 announcement,
\* the version 1 announcement with the implicit payload type, the 1-byte
\* datagram, the one of another payload type, and the 15 bytes of test packet 9
StreamDatagrams == {DgV0, DgV4, DgShort, DgNotSDP, TestPacket9}

\* b[:p.Len] after conn.ReadFrom(b): the datagram in the buffer of line 113
ReceiveBuffer(d) == [i \in 1..initialMTU |-> IF i <= Len(d) THEN d[i] ELSE StaleByte]

NoPacket == [id |-> 0, Len |-> 0, Error |-> NoErr, Description |-> <<>>]

\* Lines 131-142 of streamDecode on the datagram d.  nilDesc: sdp.Parse of the
\* external package hands back a nil *Description together with its error.
\* A panic ends the goroutine and with it the program.
streamDecodeParse(d, nilDesc) ==
    LET r == OldRead(d, ReceiveBuffer(d))
    IN  IF r.err = ErrPanic
        THEN [panic |-> TRUE, Error |-> ErrPanic, Description |-> <<>>]
        ELSE IF r.err # NoErr
        THEN [panic |-> FALSE, Error |-> r.err, Description |-> <<>>]
        ELSE IF r.h.PayloadType # SDPPayloadType
        THEN [panic |-> FALSE, Error |-> ErrPayloadNotSDP, Description |-> <<>>]
        ELSE LET s == sdpParse(r.Payload)
             IN  IF s.err # NoErr /\ nilDesc
                 THEN [panic |-> TRUE, Error |-> s.err, Description |-> <<>>]   \* *desc
                 ELSE [panic |-> FALSE, Error |-> s.err, Description |-> s.desc]

\* The deferred calls of lines 114-115
SdDeferred(s) == [s EXCEPT !.annClosed = TRUE, !.connClosed = TRUE]

\* Lines 119-125, the control channel is closed: return
SdSelectClosed ==
    /\ sd.pc = "select"
    /\ sd.control = "closed"
    /\ sd' = SdDeferred([sd EXCEPT !.pc = "returned"])
    /\ UNCHANGED <<codecVars, accVars, filterVars, rtpVars, earlierVars>>

\* Lines 119-125, a value is being sent on the control channel: take it, go on
SdSelectValue ==
    /\ sd.pc = "select"
    /\ sd.control = "sending"
    /\ sd' = [sd EXCEPT !.control = "idle", !.pc = "read"]
    /\ UNCHANGED <<codecVars, accVars, filterVars, rtpVars, earlierVars>>

\* Lines 119-125, nothing on the control channel: the default case
SdSelectDefault ==
    /\ sd.pc = "select"
    /\ sd.control = "idle"
    /\ sd' = [sd EXCEPT !.pc = "read"]
    /\ UNCHANGED <<codecVars, accVars, filterVars, rtpVars, earlierVars>>

\* Lines 127-142: conn.ReadFrom delivers a datagram, which is decoded
SdRead ==
    /\ sd.pc = "read"
    /\ sd.reads < MaxReads
    /\ \E d \in StreamDatagrams, nilDesc \in BOOLEAN :
         LET o == streamDecodeParse(d, nilDesc)
             n == sd.reads + 1
         IN  sd' = IF o.panic
                   THEN SdDeferred([sd EXCEPT !.reads = n, !.pc = "panicked",
                                              !.p = NoPacket])
                   ELSE [sd EXCEPT !.reads = n, !.pc = "next",
                                   !.p = [id |-> n, Len |-> Len(d), Error |-> o.Error,
                                          Description |-> o.Description]]
    /\ UNCHANGED <<codecVars, accVars, filterVars, rtpVars, earlierVars>>

\* Lines 127-130: conn.ReadFrom returns an error: goto next
SdReadFail ==
    /\ sd.pc = "read"
    /\ sd.reads < MaxReads
    /\ sd' = [sd EXCEPT !.reads = sd.reads + 1,
                        !.p = [id |-> sd.reads + 1, Len |-> 0, Error |-> ErrSocket,
                               Description |-> <<>>],
                        !.sockErr = TRUE,
                        !.pc = "next"]
    /\ UNCHANGED <<codecVars, accVars, filterVars, rtpVars, earlierVars>>

\* Lines 143-148 would the send wait for room in the channel
SdNextBlocking ==
    /\ sd.pc = "next"
    /\ Len(sd.announces) < ChanLen
    /\ sd' = [sd EXCEPT !.announces = Append(sd.announces, sd.p),
                        !.pc = "select", !.p = NoPacket]
    /\ UNCHANGED <<codecVars, accVars, filterVars, rtpVars, earlierVars>>

\* Lines 143-148, the label next: send p if the channel has room, else log
SdNext ==
    /\ sd.pc = "next"
    /\ sd' = IF Len(sd.announces) < ChanLen
             THEN [sd EXCEPT !.announces = Append(sd.announces, sd.p),
                             !.pc = "select", !.p = NoPacket]
             ELSE [sd EXCEPT !.drops = sd.drops + 1,
                             !.pc = "select", !.p = NoPacket]
    /\ UNCHANGED <<codecVars, accVars, filterVars, rtpVars, earlierVars>>

\* The consumer of the channel ListenSAP returned receives a packet
Receive ==
    /\ sd.announces # <<>>
    /\ sd' = [sd EXCEPT !.delivered = Append(sd.delivered, Head(sd.announces).id),
                        !.announces = Tail(sd.announces)]
    /\ UNCHANGED <<codecVars, accVars, filterVars, rtpVars, earlierVars>>

\* The caller sends a value on the control channel (and waits for it to be taken)
ControlSend ==
    /\ sd.control = "idle"
    /\ sd' = [sd EXCEPT !.control = "sending"]
    /\ UNCHANGED <<codecVars, accVars, filterVars, rtpVars, earlierVars>>

\* The caller closes the control channel
ControlClose ==
    /\ sd.control = "idle"
    /\ sd' = [sd EXCEPT !.control = "closed"]
    /\ UNCHANGED <<codecVars, accVars, filterVars, rtpVars, earlierVars>>

(***************************************************************************)
(* rtpdump: parseRTP, the RTP sequence-gap detector.                       *)
(***************************************************************************)
\* The range of a uint16, and the bound of the reset test
Uint16 == 65536
ResetLimit == 65500

ErrMalformed == "malformed packet"

\* rtp.ParsePacket of the external package, as far as RFC 3550 pins it down: a
\* datagram shorter than the 12-byte fixed header, or whose version bits are
\* not 2, is refused; the sequence number is bytes 2 and 3, big endian.
rtpParsePacket(b) ==
    IF Len(b) < 12 \/ b[1] \div 64 # 2 THEN [err |-> ErrMalformed]
    ELSE [err |-> NoErr, SequenceNumber |-> b[3] * 256 + b[4]]

\* An RTP datagram with sequence number n, and a datagram that is not RTP
RtpDatagram(n) == <<128, 33, n \div 256, n % 256, 0, 0, 0, 0, 0, 0, 0, 1>>
NotRtp == <<0>>

\* The sequence numbers on the wire: the start and the end of the range, the
\* two sides of the reset bound, and a stretch in the middle
RtpSeqs == {0, 1, 10, 11, 12, 13, 65500, 65501, 65533, 65534, 65535}
RtpDatagrams == {RtpDatagram(n) : n \in RtpSeqs} \cup {NotRtp}

\* A logged line: its kind, the sequence numbers it prints, and the number of
\* the read that produced it
Report(kind, from, to, at) == [kind |-> kind, from |-> from, to |-> to, at |-> at]

\* x+1 on uint16 without the wraparound
SuccNoWrap(x) == x + 1

\* x+1 and x-1 on uint16
Succ16(x) == (x + 1) % Uint16
Pred16(x) == (x - 1) % Uint16

\* seqnum left at its zero value on the first packet
StartSeqnumZero(r, n) == r.seqnum

\* seqnum as the test of line 108 sees it: rewound to n-1 on the first packet
\* (lines 104-107)
StartSeqnum(r, n) == IF ~r.started THEN Pred16(n) ELSE r.seqnum

\* The reset test taking any last sequence number
IsResetAnyLast(seqnum, n) == n = 0

\* The reset test of line 109
IsReset(seqnum, n) == n = 0 /\ seqnum <= ResetLimit

\* The single-loss test comparing with the packet itself
IsSingleLossOffByOne(seqnum, n) == Succ16(seqnum) = n

\* The single-loss test of line 111
IsSingleLoss(seqnum, n) == Succ16(seqnum) = Pred16(n)

\* seqnum kept when a gap was reported
NextSeqnumKeptOnGap(seqnum, n, gap) == IF gap = <<>> THEN n ELSE seqnum

\* seqnum after the packet (line 117)
NextSeqnum(seqnum, n, gap) == n

\* Lines 104-118 on a valid packet with sequence number n
parseRTPPacket(r, n) ==
    LET at == r.reads + 1
        start == IF ~r.started THEN <<Report("start", n, n, at)>> ELSE <<>>
        seqnum == StartSeqnum(r, n)
        gap == IF Succ16(seqnum) # n
               THEN IF IsReset(seqnum, n) THEN <<Report("reset", 0, 0, at)>>
                    ELSE IF IsSingleLoss(seqnum, n)
                    THEN <<Report("lost", Succ16(seqnum), Succ16(seqnum), at)>>
                    ELSE <<Report("range", Succ16(seqnum), Pred16(n), at)>>
               ELSE <<>>
    IN  [r EXCEPT !.log = r.log \o start \o gap,
                  !.seqnum = NextSeqnum(seqnum, n, gap),
                  !.started = TRUE,
                  !.pkts = Append(r.pkts, n),
                  !.reads = at]

\* Where a datagram that reaches the socket was addressed: the group and port
\* main listens on (lines 54-70), or another destination the socket, bound by
\* net.ListenMulticastUDP to the port on every address, receives as well
GroupDestination == "group"
OtherDestination == "other"
NoDestination == "none"
Destinations == {GroupDestination, OtherDestination}

\* One turn of the loop: a datagram is read and parses as RTP
RtpPacket ==
    /\ rtp.pc = "read" /\ rtp.reads < MaxDatagrams
    /\ \E d \in RtpDatagrams, dst \in Destinations :
          /\ rtpParsePacket(d).err = NoErr
          /\ rtp' = [parseRTPPacket(rtp, rtpParsePacket(d).SequenceNumber)
                        EXCEPT !.dst = dst]
    /\ UNCHANGED <<codecVars, accVars, filterVars, streamVars, earlierVars>>

\* The loop going on after a failed read or a refused datagram
RtpReturnContinue(r, kind, logged) ==
    [r EXCEPT !.reads = r.reads + 1,
              !.log = IF logged THEN Append(r.log, Report(kind, 0, 0, r.reads + 1))
                      ELSE r.log]

\* parseRTP returns after the read number r.reads + 1, logging line kind when
\* told to
RtpReturn(r, kind, logged) ==
    [r EXCEPT !.pc = "returned",
              !.reads = r.reads + 1,
              !.log = IF logged THEN Append(r.log, Report(kind, 0, 0, r.reads + 1))
                      ELSE r.log]

\* One turn of the loop: a datagram is read and rtp.ParsePacket refuses it
RtpMalformed ==
    /\ rtp.pc = "read" /\ rtp.reads < MaxDatagrams
    /\ \E d \in RtpDatagrams, dst \in Destinations :
          /\ rtpParsePacket(d).err # NoErr
          /\ rtp' = [RtpReturn(rtp, "malformed", rtp.debug) EXCEPT !.dst = dst]
    /\ UNCHANGED <<codecVars, accVars, filterVars, streamVars, earlierVars>>

\* One turn of the loop: the read deadline of two minutes passes
RtpTimeout ==
    /\ rtp.pc = "read" /\ rtp.reads < MaxDatagrams
    /\ rtp' = [RtpReturn(rtp, "timeout", TRUE) EXCEPT !.dst = NoDestination]
    /\ UNCHANGED <<codecVars, accVars, filterVars, streamVars, earlierVars>>

\* One turn of the loop: the read fails with another error
RtpReadFail ==
    /\ rtp.pc = "read" /\ rtp.reads < MaxDatagrams
    /\ rtp' = [RtpReturn(rtp, "read error", rtp.debug) EXCEPT !.dst = NoDestination]
    /\ UNCHANGED <<codecVars, accVars, filterVars, streamVars, earlierVars>>

\* parseRTP as main calls it (lines 82-84)
StartedRtp ==
    [pc |-> "read", seqnum |-> 0, started |-> FALSE, debug |-> FALSE,
     log |-> <<>>, pkts |-> <<>>, reads |-> 0, dst |-> NoDestination]

\* No detector
InitNoRtp == rtp = [StartedRtp EXCEPT !.pc = "off"]

(***************************************************************************)
(* The earlier CountStreams (sap/packet.go 494-588): countStreams serves    *)
(* Read() and Close() calls over the two unbuffered channels of a           *)
(* StreamChan.  The times of an entry are left out.                         *)
(***************************************************************************)
\* The callers of Read(), and the session names announced
Readers == {"r1", "r2"}
Sessions == {"one", "two"}

\* countStreams on a description with session name s taken from dch (packet.go
\* 569-586): the entry of that name counts one more, or a new entry is appended
ChanIngest(channels, s) ==
    IF \E i \in DOMAIN channels : channels[i].Session = s
    THEN [i \in DOMAIN channels |->
             IF channels[i].Session = s
             THEN [channels[i] EXCEPT !.Count = @ + 1] ELSE channels[i]]
    ELSE Append(channels, [Session |-> s, Count |-> 1])

\* The snapshot countStreams builds (packet.go 552-566): a copy of each entry
\* (the description's own string is taken to parse)
Snapshot(channels) == channels

\* case p := <-dch: the reader goroutine hands over a decoded announcement
ScIngest ==
    /\ sc.pc = "select" /\ sc.ingests < MaxIngest
    /\ \E s \in Sessions :
          sc' = [sc EXCEPT !.channels = ChanIngest(sc.channels, s),
                           !.ingests = sc.ingests + 1]
    /\ UNCHANGED <<codecVars, accVars, filterVars, streamVars, rtpVars, fc>>

\* case msg := <-cch.controlchan with msg true: the send of Read() caller r is
\* received, the snapshot is built
ScControlTrue(r) ==
    /\ sc.pc = "select" /\ ~sc.ctlClosed
    /\ sc.rd[r] = "send"
    /\ sc' = [sc EXCEPT !.pc = "send", !.snapshot = Snapshot(sc.channels),
                        !.rd[r] = "recv"]
    /\ UNCHANGED <<codecVars, accVars, filterVars, streamVars, rtpVars, fc>>

\* cch.datachan <- snapshot meets the receive of Read() caller r, which returns
ScSendSnapshot(r) ==
    /\ sc.pc = "send"
    /\ sc.rd[r] = "recv"
    /\ sc' = [sc EXCEPT !.pc = "select", !.snapshot = <<>>, !.rd[r] = "idle",
                        !.got = [by |-> r, v |-> sc.snapshot]]
    /\ UNCHANGED <<codecVars, accVars, filterVars, streamVars, rtpVars, fc>>

\* case msg := <-cch.controlchan with msg false: the send of Close() is
\* received; close(cch.datachan) and return (packet.go 548-551)
ScControlFalse ==
    /\ sc.pc = "select" /\ ~sc.ctlClosed
    /\ sc.cl = "send"
    /\ sc' = [sc EXCEPT !.pc = "returned", !.dataClosed = TRUE, !.cl = "close"]
    /\ UNCHANGED <<codecVars, accVars, filterVars, streamVars, rtpVars, fc>>

\* Caller r calls Read(): c.controlchan <- true blocks until countStreams
\* receives; on a closed channel the send panics
ReadCall(r) ==
    /\ sc.rd[r] = "idle"
    /\ sc' = [sc EXCEPT !.rd[r] = IF sc.ctlClosed THEN "panicked" ELSE "send"]
    /\ UNCHANGED <<codecVars, accVars, filterVars, streamVars, rtpVars, fc>>

\* The channel is closed under the blocked send of Read() caller r: the send
\* panics
ReadSendOnClosed(r) ==
    /\ sc.rd[r] = "send"
    /\ sc.ctlClosed
    /\ sc' = [sc EXCEPT !.rd[r] = "panicked"]
    /\ UNCHANGED <<codecVars, accVars, filterVars, streamVars, rtpVars, fc>>

\* Close() is called: c.controlchan <- false blocks until countStreams receives
CloseCall ==
    /\ sc.cl = "idle"
    /\ sc' = [sc EXCEPT !.cl = "send"]
    /\ UNCHANGED <<codecVars, accVars, filterVars, streamVars, rtpVars, fc>>

\* Close() after its send: close(c.controlchan), and Close() returns
CloseControl ==
    /\ sc.cl = "close"
    /\ sc' = [sc EXCEPT !.cl = "done", !.ctlClosed = TRUE]
    /\ UNCHANGED <<codecVars, accVars, filterVars, streamVars, rtpVars, fc>>

\* The StreamChan CountStreams returns (packet.go 495-499, 507-512)
StartedChan ==
    [pc |-> "select", channels |-> <<>>, snapshot |-> <<>>, ctlClosed |-> FALSE,
     dataClosed |-> FALSE, rd |-> [r \in Readers |-> "idle"], cl |-> "idle",
     got |-> [by |-> "none", v |-> <<>>], ingests |-> 0]

\* No StreamChan
InitNoChan == sc = [StartedChan EXCEPT !.pc = "off"]

(***************************************************************************)
(* FindChannels (sap/packet.go 470-492).                                    *)
(***************************************************************************)
\* The session names on the wire, the names a caller asks for, the origin
\* addresses and the media sections of the announcements
AnnouncedNames == {"a", "b", "c"}
RequestedNames == {"a", "b"}
OriginAddresses == {"239.1.1.1", "239.1.1.2"}
MediaPorts == {<<>>, <<5004>>, <<5006, 5004>>}

\* What c.Read() returns: an error, or a decoded announcement
Announcements ==
    [Session : AnnouncedNames, Address : OriginAddresses, Media : MediaPorts,
     err : BOOLEAN]
NoAnnouncement == [Session |-> "", Address |-> "", Media |-> <<>>, err |-> TRUE]

\* net.ParseIP on a dotted address: its four bytes
ParseIP(a) ==
    IF a = "239.1.1.1" THEN <<239, 1, 1, 1>>
    ELSE IF a = "239.1.1.2" THEN <<239, 1, 1, 2>>
    ELSE <<>>

NoAddr == [IP |-> <<>>, Port |-> -1]

\* len(matches)
LenMatches(m) == Cardinality({n \in DOMAIN m : m[n] # NoAddr})

\* One round of the loop of lines 474-489 on what c.Read() returned: an error
\* is skipped; an announcement whose session is a requested name is entered
\* under that name with Media[0].Port, which panics without a media section;
\* the loop ends when the map has as many entries as names were requested
FindChannelsRound(f, a) ==
    LET hit == \E i \in DOMAIN f.channels : f.channels[i] = a.Session
        g == [f EXCEPT !.last = a,
                       !.seen[a.Session] = IF a.err THEN @ ELSE a]
    IN  IF a.err THEN g
        ELSE IF hit /\ a.Media = <<>> THEN [g EXCEPT !.pc = "panicked"]
        ELSE LET m == IF hit
                      THEN [f.matches EXCEPT ![a.Session] =
                               [IP |-> ParseIP(a.Address), Port |-> a.Media[1]]]
                      ELSE f.matches
             IN  [g EXCEPT !.matches = m,
                           !.pc = IF LenMatches(m) = Len(f.channels)
                                  THEN "returned" ELSE "read"]

\* c.Read() returns a
FcRead(a) ==
    /\ fc.pc = "read"
    /\ fc' = FindChannelsRound(fc, a)
    /\ UNCHANGED <<codecVars, accVars, filterVars, streamVars, rtpVars, sc>>

\* A decoded announcement for the session name n, with a media section, is read
FcAnnounce(n) ==
    \E a \in Announcements :
        a.Session = n /\ ~a.err /\ a.Media # <<>> /\ FcRead(a)

\* FindChannels called with the names chs (lines 471-473)
StartedFind(chs) ==
    [pc |-> "read", channels |-> chs,
     matches |-> [n \in AnnouncedNames |-> NoAddr],
     seen |-> [n \in AnnouncedNames |-> NoAnnouncement],
     last |-> NoAnnouncement]

\* The non-empty lists of names a caller can pass
ChannelLists ==
    {<<n>> : n \in RequestedNames}
        \cup {<<n, k>> : n \in RequestedNames, k \in RequestedNames}

\* No FindChannels call
InitNoFind == fc = [StartedFind(<<>>) EXCEPT !.pc = "off"]

InitNoEarlier == InitNoChan /\ InitNoFind

\* streamDecode as ListenSAP starts it (lines 106-108): nothing read, both
\* channels open and empty
StartedStream ==
    [pc |-> "select", p |-> NoPacket, announces |-> <<>>, annClosed |-> FALSE,
     connClosed |-> FALSE, control |-> "idle", delivered |-> <<>>, reads |-> 0,
     drops |-> 0, sockErr |-> FALSE]

\* No receive loop
InitNoStream == sd = [StartedStream EXCEPT !.pc = "off"]

\* No filter call
InitNoFilter == flt = [lf |-> NoLifetime, pc |-> "off", call |-> NoCall]

InitAcc ==
    /\ lifetimes = EmptyMap
    /\ rw = [writer |-> FALSE, readers |-> 0]
    /\ notifClosed = FALSE
    /\ connClosed = FALSE
    /\ clock = 0
    /\ csPc = "read"
    /\ csPkt = NoPkt
    /\ channel = NoChannel
    /\ csNow = 0
    /\ wPc = [w \in Waiters |-> "idle"]
    /\ itPc = "idle"
    /\ itTodo = {}
    /\ itCh = <<>>
    /\ itCap = 0
    /\ itFilter = [kind |-> "all"]
    /\ itSnap = EmptyMap
    /\ itSent = <<>>
    /\ seen = EmptyMap
    /\ ingests = 0
    /\ trueReturns = 0
    /\ lateTrue = FALSE
    /\ decodeErrs = 0
    /\ sockErr = FALSE

\* No codec run
InitNoCodec ==
    /\ cpc = "off"
    /\ hdr = ZeroHeader
    /\ payload = <<>>
    /\ wr = None
    /\ buf = <<>>
    /\ dec = None
    /\ full = None

\* A codec run from a header and a payload
InitCodec ==
    /\ cpc = "input"
    /\ hdr \in InputHeaders
    /\ payload \in InputPayloads
    /\ wr = None
    /\ buf = <<>>
    /\ dec = None
    /\ full = None
    /\ InitAcc
    /\ InitNoFilter
    /\ InitNoStream
    /\ InitNoRtp
    /\ InitNoEarlier

Init ==
    InitAcc /\ InitNoCodec /\ InitNoFilter /\ InitNoStream /\ InitNoRtp /\ InitNoEarlier

Next ==
    \/ CsRead \/ CsReadReject \/ CsReadFail
    \/ CsLock \/ CsInterval \/ CsStore \/ CsInsert \/ CsUnlock
    \/ CsClose
    \/ \E w \in Waiters : Notify(w)
    \/ \E w \in Waiters : WaitChange(w)
    \/ \E w \in Waiters : WaitClosed(w)
    \/ Close
    \/ \E f \in Filters : Iterator(f)
    \/ ItVisit \/ ItRUnlock \/ ItRecv \/ ItDone

Spec == Init /\ [][Next]_vars

NextCodec == Encode \/ DecodeHeader \/ DecodeOld

SpecCodec == InitCodec /\ [][NextCodec]_vars

\* Packet.ParseSDP called on a packet that Conn.Read decoded without error
CallParseSDP ==
    /\ cpc = "decoded" /\ dec.by = "ParseHeader" /\ dec.err = NoErr
    /\ dec' = [by |-> "ParseSDP", p |-> dec, res |-> ParseSDP(dec)]
    /\ cpc' = "parsed"
    /\ UNCHANGED <<hdr, payload, wr, buf, full>>
    /\ UNCHANGED <<accVars, filterVars, streamVars, rtpVars, earlierVars>>

\* Encoding runs into destination buffers of every size around Length()
NextEncode == EncodeInto

SpecEncode == InitCodec /\ [][NextEncode]_vars

\* A decode run from the bytes of a received datagram
InitDecode ==
    /\ cpc = "raw"
    /\ hdr = ZeroHeader
    /\ payload = <<>>
    /\ wr = None
    /\ buf \in testPackets
    /\ dec = None
    /\ full = None
    /\ InitAcc
    /\ InitNoFilter
    /\ InitNoStream
    /\ InitNoRtp
    /\ InitNoEarlier

NextDecode == DecodeHeader \/ DecodeOld \/ Truncate

SpecDecode == InitDecode /\ [][NextDecode]_vars

\* A filter call on an entry of the map
InitFilter ==
    /\ flt \in [lf : InputLifetimes, pc : {"ready"}, call : {NoCall}]
    /\ InitAcc
    /\ InitNoCodec
    /\ InitNoStream
    /\ InitNoRtp
    /\ InitNoEarlier

\* streamDecode as ListenSAP starts it
InitStream ==
    /\ sd = StartedStream
    /\ InitAcc
    /\ InitNoCodec
    /\ InitNoFilter
    /\ InitNoRtp
    /\ InitNoEarlier

NextStream ==
    \/ SdSelectClosed \/ SdSelectValue \/ SdSelectDefault
    \/ SdRead \/ SdReadFail \/ SdNext
    \/ Receive \/ ControlSend \/ ControlClose

SpecStream == InitStream /\ [][NextStream]_vars

\* The goroutine of streamDecode is scheduled whenever it can take a step of
\* its own; when the next datagram arrives, and whether a socket error comes,
\* is up to the network
FairStream ==
    /\ WF_vars(SdSelectClosed) /\ WF_vars(SdSelectValue)
    /\ WF_vars(SdSelectDefault) /\ WF_vars(SdNext)

FairSpecStream == InitStream /\ [][NextStream]_vars /\ FairStream

NextFilter == CallFilterNotExpired \/ CallFilter

SpecFilter == InitFilter /\ [][NextFilter]_vars

\* The test packets with every value of the 3-bit version field
WithVersion(b, v) == [b EXCEPT ![1] = (b[1] % 32) + 32 * v]
HeaderBuffers == testPackets \cup {WithVersion(b, v) : b \in testPackets, v \in 0..7}

\* A decode run from the bytes of any of these buffers
InitHeader ==
    /\ cpc = "raw"
    /\ hdr = ZeroHeader
    /\ payload = <<>>
    /\ wr = None
    /\ buf \in HeaderBuffers
    /\ dec = None
    /\ full = None
    /\ InitAcc
    /\ InitNoFilter
    /\ InitNoStream
    /\ InitNoRtp
    /\ InitNoEarlier

SpecHeader == InitHeader /\ [][NextDecode]_vars

\* The scheduler runs countStreams when it can release the lock, and a send
\* on the notifications channel completes when a receiver waits.  Nothing makes
\* a datagram arrive or a caller call.
\* A run of parseRTP, with and without -v
InitRtp ==
    /\ rtp \in {[StartedRtp EXCEPT !.debug = d] : d \in BOOLEAN}
    /\ InitAcc
    /\ InitNoCodec
    /\ InitNoFilter
    /\ InitNoStream
    /\ InitNoEarlier

NextRtp == RtpPacket \/ RtpMalformed \/ RtpTimeout \/ RtpReadFail

SpecRtp == InitRtp /\ [][NextRtp]_vars

\* The earlier CountStreams with two Read() callers and one Close() call
InitChan ==
    /\ sc = StartedChan
    /\ InitNoFind
    /\ InitAcc
    /\ InitNoCodec
    /\ InitNoFilter
    /\ InitNoStream
    /\ InitNoRtp

NextChan ==
    \/ ScIngest \/ ScControlFalse
    \/ \E r \in Readers : ScControlTrue(r)
    \/ \E r \in Readers : ScSendSnapshot(r)
    \/ \E r \in Readers : ReadCall(r)
    \/ \E r \in Readers : ReadSendOnClosed(r)
    \/ CloseCall \/ CloseControl

SpecChan == InitChan /\ [][NextChan]_vars

\* FindChannels called with each list of names
InitFind ==
    /\ fc \in {StartedFind(chs) : chs \in ChannelLists}
    /\ InitNoChan
    /\ InitAcc
    /\ InitNoCodec
    /\ InitNoFilter
    /\ InitNoStream
    /\ InitNoRtp

NextFind == \E a \in Announcements : FcRead(a)

SpecFind == InitFind /\ [][NextFind]_vars

\* Every requested name keeps being announced and decoded
FairFind == \A n \in RequestedNames : WF_vars(FcAnnounce(n))

FairSpecFind == InitFind /\ [][NextFind]_vars /\ FairFind

\* ParseSDP runs on the decoded test packets, under every version value
NextSDP == DecodeHeader \/ CallParseSDP

SpecSDP == InitHeader /\ [][NextSDP]_vars

Fairness ==
    /\ WF_vars(CsUnlock)
    /\ WF_vars(\E w \in Waiters : Notify(w))

\* The Iterator goroutine is scheduled as long as it can run: nothing but its
\* own send can stop it between RLock and close(ch) (network.go 119-127)
FairIterator == WF_vars(ItVisit) /\ WF_vars(ItRUnlock)

\* Iterator calls next to the ingest goroutine and the WaitChange callers, on
\* a connection that stays open and delivers announcements
NextIterator ==
    \/ CsRead \/ CsLock \/ CsInterval \/ CsStore \/ CsInsert \/ CsUnlock
    \/ \E w \in Waiters : Notify(w)
    \/ \E w \in Waiters : WaitChange(w)
    \/ \E f \in Filters : Iterator(f)
    \/ ItVisit \/ ItRUnlock \/ ItRecv \/ ItDone

FairSpecIterator == Init /\ [][NextIterator]_vars /\ FairIterator

FairSpec == Init /\ [][Next]_vars /\ Fairness

(***************************************************************************)
(* The codec properties.                                                   *)
(***************************************************************************)
\* Two authentication blocks are equal (PaddingLen counts only with Padding)
AuthEq(a, b) ==
    /\ a.present = b.present
    /\ a.present => /\ a.Version = b.Version
                    /\ a.AuthMethod = b.AuthMethod
                    /\ a.Padding = b.Padding
                    /\ a.Data = b.Data
                    /\ a.Padding => a.PaddingLen = b.PaddingLen

\* C1: round trip.  WriteBinary(H, P) succeeds, and ParseHeader of the bytes it
\* wrote succeeds and returns the Version, Reserved, Type, Compressed, Encrypted,
\* IDHash, OrigSrc (as an address), PayloadType and AuthData of H after
\* recomputeLen, and the bytes after the returned length are P.
C1_RoundTrip ==
    /\ cpc # "failed"
    /\ (cpc = "decoded" /\ dec.by = "ParseHeader") =>
        /\ dec.err = NoErr
        /\ dec.h.Version = hdr.Version
        /\ dec.h.Reserved = hdr.Reserved
        /\ dec.h.Type = hdr.Type
        /\ dec.h.Compressed = hdr.Compressed
        /\ dec.h.Encrypted = hdr.Encrypted
        /\ dec.h.IDHash = hdr.IDHash
        /\ To16(dec.h.OrigSrc) = To16(hdr.OrigSrc)
        /\ dec.h.PayloadType = hdr.PayloadType
        /\ AuthEq(dec.h.AuthData, wr.h.AuthData)
        /\ dec.Payload = payload

\* C2: one bit assignment for byte 0.  ParseHeader reads Reserved from bit 3,
\* Type from bit 2, Encrypted from bit 1 and Compressed from bit 0 of the first
\* byte, and these are the bits WriteBinary wrote the flags of the header to.
C2_SameBitAssignment ==
    (cpc = "decoded" /\ dec.by = "ParseHeader" /\ dec.err = NoErr) =>
        /\ dec.h.Reserved = Bit(buf[1], 3)
        /\ dec.h.Type = Bit(buf[1], 2)
        /\ dec.h.Encrypted = Bit(buf[1], 1)
        /\ dec.h.Compressed = Bit(buf[1], 0)
        /\ Bit(buf[1], 3) = hdr.Reserved
        /\ Bit(buf[1], 2) = hdr.Type
        /\ Bit(buf[1], 1) = hdr.Encrypted
        /\ Bit(buf[1], 0) = hdr.Compressed

\* C3: truncation.  Decoding a strict prefix, shorter than the returned header
\* length, of a buffer the decoder accepted returns the invalid-header-length
\* error, and no decode reads an index at or beyond the length of its buffer.
C3_Truncation ==
    /\ cpc = "truncated" => dec.err = ErrHeaderLen
    /\ cpc \in {"decoded", "truncated"} => dec.extent <= Len(buf)

(***************************************************************************)
(* The accumulator properties.                                             *)
(***************************************************************************)
\* C4: identity stability.  The map holds exactly one entry per ingested
\* (IDHash, origin as 16 bytes) pair, whatever the payloads were, and the
\* entry's Count is the number of ingests of that identity.
C4_IdentityStability ==
    /\ DOMAIN lifetimes = DOMAIN seen
    /\ \A k \in DOMAIN seen : lifetimes[k].Count = seen[k].n /\ lifetimes[k].Hash = k[1]

\* C4, its case: one identity ingested twice, as an IPv4 and as an IPv4-mapped
\* origin with another payload, and counted in one entry
C4_Witness ==
    \E k \in DOMAIN lifetimes :
        /\ lifetimes[k].Count = 2
        /\ seen[k].last # lifetimes[k].Description
        /\ Cardinality(DOMAIN lifetimes) = 1

\* C5: Close.  No WaitChange call returns true once Close() has been called.
C5_FalseAfterClose == ~lateTrue

\* C6: notification liveness.  WaitChange has returned true at most as often as
\* countStreams has ingested (never without an ingest); and when an ingest is
\* complete while a caller is blocked in WaitChange, a WaitChange call
\* eventually returns true for it: the true returns catch up with the ingests.
C6_NotificationLiveness ==
    /\ [](trueReturns <= ingests)
    /\ (csPc = "unlock" /\ \E w \in Waiters : wPc[w] = "recv") ~> (trueReturns = ingests)

\* C6, its case: an ingest complete with a caller blocked in WaitChange
C6_Witness ==
    /\ csPc = "unlock"
    /\ \E w \in Waiters : wPc[w] = "recv"
    /\ ingests = 2 /\ trueReturns = 1

\* C7: a datagram that ParseHeader or ParseSDP rejects does not stop
\* countStreams: it keeps reading and the notifications channel stays open.
C7_DecodeErrorsContinue ==
    (decodeErrs > 0 /\ ~connClosed /\ ~sockErr) =>
        (csPc \notin {"close", "done"} /\ ~notifClosed)

\* The keys of the entries an Iterator call has yielded
SentKeys == {itSent[i].key : i \in 1..Len(itSent)}

\* C8: snapshot consistency.  What an Iterator call yields are entries of the
\* map as it was when the read lock was taken, with Last, Interval and Count
\* as stored there, each satisfying the filter, each identity at most once; when
\* the channel is closed every entry of that state satisfying the filter has
\* been yielded.
C8_SnapshotConsistency ==
    itPc # "idle" =>
        /\ \A i \in 1..Len(itSent) :
            /\ itSent[i].key \in DOMAIN itSnap
            /\ itSent[i].v = itSnap[itSent[i].key]
            /\ Filter(itFilter, itSent[i].v)
        /\ \A i, j \in 1..Len(itSent) : itSent[i].key = itSent[j].key => i = j
        /\ itPc = "closed" =>
            SentKeys = {k \in DOMAIN itSnap : Filter(itFilter, itSnap[k])}

\* C8, its case: an Iterator call under the ChannelList filter has yielded its
\* one entry and closed the channel, and an ingest has changed the map since
C8_Witness ==
    /\ itPc = "closed"
    /\ itFilter.kind = "list"
    /\ Len(itSent) = 1
    /\ lifetimes # itSnap

\* C9 as stated: on a re-sighting Interval is the new Last minus the previous Last.
C9_IntervalIsLastDelta ==
    [][CsStore => channel'.Interval = channel'.Last - channel.Last]_vars

\* C9: timing fields.  The first ingest of an identity stores Interval = 0 and
\* Count = 1 and the time read as Last.  A re-sighting adds 1 to Count, stores as
\* Interval the first of its two clock readings minus the previous Last, and as
\* Last its second reading, which is not earlier: the previous Last plus
\* Interval is at most the new Last.
C9_TimingFields ==
    [][/\ CsInsert =>
            LET new == lifetimes'[origHash(csPkt)]
            IN  new.Interval = 0 /\ new.Count = 1 /\ new.Last = clock'
       /\ CsStore =>
            LET old == lifetimes[origHash(csPkt)]
                new == lifetimes'[origHash(csPkt)]
            IN  /\ new.Count = old.Count + 1
                /\ new.Interval = csNow - old.Last
                /\ new.Last = clock'
                /\ old.Last + new.Interval <= new.Last]_vars

\* C9, its case: a re-sighting stored with the clock advanced between the two readings
C9_Witness ==
    /\ csPc = "unlock"
    /\ channel.Count = 2
    /\ channel.Last > csNow
    /\ lifetimes[origHash(csPkt)] = channel

\* C10: most recent description.  An entry holds the description of the most
\* recent announcement ingested for its identity.
C10_MostRecentDescription ==
    \A k \in DOMAIN lifetimes : lifetimes[k].Description = seen[k].last

\* C11: the map only grows.  No step removes an identity or lowers its Count,
\* an announcement of Type delete included; and only the two map writes of
\* countStreams change the map: Iterator, WaitChange and Close leave it as it is.
C11_MapOnlyGrows ==
    [][/\ \A k \in DOMAIN lifetimes :
            k \in DOMAIN lifetimes' /\ lifetimes'[k].Count >= lifetimes[k].Count
       /\ lifetimes' # lifetimes => (CsStore \/ CsInsert)]_vars

\* C11, its case: a deletion for an identity in the map has been ingested, with
\* an Iterator call, a WaitChange call and Close() made
C11_Witness ==
    /\ csPc = "unlock"
    /\ csPkt.Type
    /\ channel.Count = 2
    /\ origHash(csPkt) \in DOMAIN lifetimes
    /\ itPc # "idle"
    /\ connClosed
    /\ \E w \in Waiters : wPc[w] = "recv"


\* C12: the default liveness filter accepts an entry if and only if
\* now <= Last + 10*Interval, or Count = 1 and now <= Last + grace period; an
\* entry with Count >= 2 whose Last + 10*Interval has passed is rejected.
\* Stated for calls whose clock readings coincide, and off the instants where
\* "not after" and "before" differ.
C12_DefaultLivenessFilter ==
    (/\ flt.pc = "done"
     /\ flt.call.fn = "FilterNotExpired"
     /\ flt.call.now1 = flt.call.now2
     /\ flt.call.now1 # flt.lf.Last + flt.lf.Interval * 10
     /\ flt.call.now1 # flt.lf.Last + TwoMinutes)
    => (flt.call.res <=> \/ flt.call.now1 <= flt.lf.Last + flt.lf.Interval * 10
                         \/ (flt.lf.Count = 1 /\ flt.call.now1 <= flt.lf.Last + TwoMinutes))

\* C12, the particular case: FilterNotExpired never accepts an entry received
\* at least twice whose Last + 10*Interval has passed
C12_RepeatedEntryExpires ==
    (/\ flt.pc = "done"
     /\ flt.call.fn = "FilterNotExpired"
     /\ flt.lf.Count >= 2
     /\ flt.call.now1 > flt.lf.Last + flt.lf.Interval * 10)
    => ~flt.call.res

\* C12, the filter of cmd/sapdump: it does reject such an entry
C12_SapdumpRepeatedEntryExpires ==
    (/\ flt.pc = "done"
     /\ flt.call.fn = "filter"
     /\ flt.lf.Count >= 2
     /\ flt.call.now1 > flt.lf.Last + flt.lf.Interval * 10)
    => ~flt.call.res

\* The ids of a sequence of packets
Ids(q) == [i \in 1..Len(q) |-> q[i].id]

\* C13: streamDecode never blocks on its output queue: at the label next its
\* step is always possible.  With ChanLen packets queued the new packet is
\* dropped, the queue is unchanged and the loop goes on to the next read.  The
\* queue never holds more than ChanLen packets, and the packets enqueued reach
\* the consumer in the order they were read.
C13_QueueFullPolicy ==
    /\ [](/\ Len(sd.announces) <= ChanLen
          /\ sd.pc = "next" => ENABLED SdNext
          /\ LET q == sd.delivered \o Ids(sd.announces)
             IN  \A i, j \in 1..Len(q) : i < j => q[i] < q[j])
    /\ [][(sd.pc = "next" /\ Len(sd.announces) = ChanLen /\ sd'.pc # "next")
            => (sd'.announces = sd.announces /\ sd'.pc = "select"
                /\ sd'.drops = sd.drops + 1)]_vars

\* C13, its case: a packet was dropped on a full queue, the loop went on to
\* read again and the consumer has received packets since
C13_Witness ==
    /\ sd.drops >= 1
    /\ sd.pc = "read"
    /\ Len(sd.announces) = ChanLen
    /\ Len(sd.delivered) >= 1

\* C14: a socket read error terminates the receive loop.  Once conn.ReadFrom
\* has returned an error streamDecode does not go on to read the failed socket
\* again (it returns instead).
C14_SocketErrorTerminates ==
    sd.sockErr => sd.pc # "read"

\* C14, the other loop: once the socket read of countStreams has failed the
\* loop is left and the notifications channel gets closed
C14_CountStreamsExits ==
    sockErr => /\ csPc \in {"close", "done"}
               /\ csPc = "done" => notifClosed

\* C15: every datagram streamDecode reads gets exactly one Packet offered to
\* the output queue (queued or dropped there), with Error nil and the decoded
\* description when header decode and SDP parse succeed and Error set
\* otherwise; no datagram crashes the loop and none is passed over.
C15_TaggedResults ==
    /\ sd.pc # "panicked"
    /\ sd.pc \in {"select", "read", "returned"}
         => Len(sd.delivered) + Len(sd.announces) + sd.drops = sd.reads
    /\ sd.pc = "next"
         => /\ Len(sd.delivered) + Len(sd.announces) + sd.drops = sd.reads - 1
            /\ sd.p.id = sd.reads
            /\ sd.p.Error = NoErr
                 => (Len(sd.p.Description) >= 3 /\ Slice(sd.p.Description, 0, 3) = SDPMagic)
            /\ sd.p.Error # NoErr => sd.p.Description = <<>>

\* The header fields as RFC 2974 lays them out in the buffer b
VersionOf(b) == b[1] \div 32
AddrLenOf(b) == IF Bit(b[1], 4) THEN 16 ELSE 4
AuthLenOf(b) == b[2]
BaseLen(b) == 4 + AddrLenOf(b) + 4 * AuthLenOf(b)
AuthBlock(b) == Slice(b, 4 + AddrLenOf(b), BaseLen(b))
ParsedHeader == cpc \in {"decoded", "truncated"} /\ dec.by = "ParseHeader"
AuthErrors == {ErrAuthVersion, ErrPadding}

\* The buffer holds the address and auth blocks and its payload type is implicit
ImplicitType(b) ==
    /\ Len(b) >= 4
    /\ Len(b) >= BaseLen(b)
    /\ \/ VersionOf(b) = 0
       \/ /\ VersionOf(b) = 1
          /\ Len(b) >= BaseLen(b) + 3
          /\ Slice(b, BaseLen(b), BaseLen(b) + 3) = SDPMagic

\* The buffer holds the address and auth blocks and names its payload type
ExplicitType(b) ==
    /\ Len(b) >= 4
    /\ Len(b) >= BaseLen(b)
    /\ VersionOf(b) = 1
    /\ ~(Len(b) >= BaseLen(b) + 3 /\ Slice(b, BaseLen(b), BaseLen(b) + 3) = SDPMagic)

\* C16: with version 0, or version 1 and 'v=0' right after the address and
\* auth blocks, ParseHeader (the auth block being well-formed) succeeds with
\* PayloadType application/sdp and takes no byte for the type: the header
\* length is 4 + (4 or 16) + 4*AuthLen and the payload begins there.
C16_ImplicitPayloadType ==
    (ParsedHeader /\ ImplicitType(buf) /\ dec.err \notin AuthErrors)
    => /\ dec.err = NoErr
       /\ dec.h.PayloadType = SDPPayloadType
       /\ dec.h.len = BaseLen(buf)
       /\ dec.Payload = Slice(buf, BaseLen(buf), Len(buf))

\* C16, its case: test packet 3, version 1 with an IPv6 origin and a payload
\* that begins with 'v=0', decoded with header length 20
C16_Witness ==
    /\ ParsedHeader
    /\ buf = TestPacket3
    /\ VersionOf(buf) = 1
    /\ ImplicitType(buf)
    /\ dec.h.len = 20

\* C17: with version 1 and no 'v=0' after the address and auth blocks,
\* ParseHeader (the auth block being well-formed) fails with the malformed
\* payload type error when no NUL byte follows; otherwise PayloadType is the
\* bytes before the first NUL, the header length grows by their number plus
\* one and the payload begins right after the NUL.
C17_ExplicitPayloadType ==
    (ParsedHeader /\ ExplicitType(buf) /\ dec.err \notin AuthErrors)
    => LET base == BaseLen(buf)
           nuls == {k \in 0..(Len(buf) - base - 1) : buf[base + k + 1] = 0}
       IN  IF nuls = {}
           THEN dec.err = ErrPayloadType
           ELSE \E k \in nuls :
                  /\ \A j \in nuls : k <= j
                  /\ dec.err = NoErr
                  /\ dec.h.PayloadType = Slice(buf, base, base + k)
                  /\ dec.h.len = base + k + 1
                  /\ dec.Payload = Slice(buf, base + k + 1, Len(buf))

\* C17, its case: test packet 11, whose payload type is spelled out
C17_Witness ==
    /\ ParsedHeader
    /\ buf = TestPacket11
    /\ ExplicitType(buf)
    /\ dec.err = NoErr
    /\ dec.h.PayloadType # SDPPayloadType
    /\ Len(dec.h.PayloadType) > 0

\* C18: for every buffer of at least 4 bytes whose version field is above 1
\* ParseHeader returns the version error, having read nothing beyond the
\* first four bytes: no address, no auth data, no payload type.
C18_VersionCheck ==
    (ParsedHeader /\ Len(buf) >= 4 /\ VersionOf(buf) > 1)
    => /\ dec.err = ErrVersion
       /\ dec.extent <= 4
       /\ dec.h.OrigSrc = <<>>
       /\ dec.h.AuthData = NoAuth
       /\ dec.h.PayloadType = <<>>

\* C18, its case: a buffer of version 7 with an address, an auth block and a
\* payload behind the first four bytes
C18_Witness ==
    /\ ParsedHeader
    /\ buf = WithVersion(TestPacket13, 7)
    /\ dec.err = ErrVersion

\* C19: when AuthLen > 0 (and the buffer holds the block) ParseHeader decodes
\* exactly the AuthLen*4 bytes after the address: it fails unless the
\* sub-header version is 1, fails when the padding flag is set and the last
\* byte of the block exceeds the block length minus 1, and otherwise Data is
\* the bytes from index 1 up to block length minus padding length.  On success
\* AuthData is present if and only if AuthLen > 0.
C19_AuthDecode ==
    /\ (ParsedHeader /\ Len(buf) >= 4 /\ VersionOf(buf) <= 1 /\ AuthLenOf(buf) > 0
          /\ Len(buf) >= BaseLen(buf))
       => LET blk == AuthBlock(buf)
              padded == Bit(blk[1], 4)
              padlen == IF padded THEN blk[Len(blk)] ELSE 0
          IN  IF blk[1] \div 32 # 1 THEN dec.err = ErrAuthVersion
              ELSE IF padded /\ padlen > Len(blk) - 1 THEN dec.err = ErrPadding
              ELSE /\ dec.err \notin AuthErrors
                   /\ dec.err = NoErr
                        => /\ dec.h.AuthData.present
                           /\ dec.h.AuthData.Version = 1
                           /\ dec.h.AuthData.Padding = padded
                           /\ dec.h.AuthData.PaddingLen = padlen
                           /\ dec.h.AuthData.AuthMethod = blk[1] % 16
                           /\ dec.h.AuthData.Data = Slice(blk, 1, Len(blk) - padlen)
    /\ (ParsedHeader /\ dec.err = NoErr)
       => (dec.h.AuthData.present <=> dec.h.AuthLen > 0)

\* C19, its case: test packet 13, whose auth block has the padding flag set
C19_Witness ==
    /\ ParsedHeader
    /\ buf = TestPacket13
    /\ dec.err = NoErr
    /\ dec.h.AuthData.present
    /\ dec.h.AuthData.Padding
    /\ dec.h.AuthData.PaddingLen > 0


\* C20: for an AuthData with data length L, whatever its Padding flag and
\* PaddingLen were before, reflowPadding returns a word count W (the AuthLen
\* WriteBinary then writes) with 4*W >= L+1 and 4*W - (L+1) < 4.
C20_PaddingBound ==
    (cpc \in {"encoded", "failed"} /\ hdr.AuthData.present)
    => LET L == Len(hdr.AuthData.Data)
           W == reflowPadding(hdr.AuthData).words
       IN  /\ wr.h.AuthLen = W
           /\ 4 * W >= L + 1
           /\ 4 * W - (L + 1) < 4

\* C21: after Header.recomputeLen with AuthData present, whatever AuthLen,
\* Padding and PaddingLen held before, 4 * AuthLen equals 1 + len(Data) plus
\* the padding length when Padding is set, and when Padding is set
\* 1 + len(Data) + PaddingLen is a multiple of 4.
C21_WholeWords ==
    (wr # None /\ hdr.AuthData.present)
    => LET a == wr.h.AuthData
       IN  /\ 4 * wr.h.AuthLen
                = 1 + Len(a.Data) + (IF a.Padding THEN a.PaddingLen ELSE 0)
           /\ a.Padding => (1 + Len(a.Data) + a.PaddingLen) % 4 = 0

\* C22: when AuthData is absent, Packet.WriteBinary writes auth-length byte 0
\* and no auth block (the address is followed at once by the payload type or
\* the payload), whatever Header.AuthLen held before the call, and it does not
\* dereference the absent AuthData.
C22_NoStaleAuthLen ==
    (wr # None /\ ~hdr.AuthData.present)
    => /\ wr.err = NoErr
       /\ wr.b[2] = 0
       /\ wr.n = 4 + (IF To4(hdr.OrigSrc) # <<>> THEN 4 ELSE 16)
                 + (IF hdr.Version = 1 THEN Len(hdr.PayloadType) + 1 ELSE 0)
                 + Len(payload)

\* The bytes WriteBinary needs: the recomputed header length plus the payload
NeedLen == recomputeLen(hdr).len + Len(payload)

\* C23: if the destination is shorter than the recomputed header length plus
\* the payload length, Packet.WriteBinary returns 0 and an error and changes
\* no byte of the destination; if the destination is at least that long, no
\* byte at or beyond index header length + payload length is written.
C23_BufferTooSmall ==
    wr # None
    => /\ Len(wr.b) < NeedLen
            => /\ wr.n = 0
               /\ wr.err = ErrTooSmall
               /\ wr.b = Dst(Len(wr.b))
       /\ Len(wr.b) >= NeedLen
            => \A i \in (NeedLen + 1)..Len(wr.b) : wr.b[i] = FreshByte

\* A non-empty destination one byte short of a packet with a payload was refused
C23_Witness ==
    /\ wr # None
    /\ Len(payload) > 0
    /\ Len(wr.b) = NeedLen - 1
    /\ wr.err = ErrTooSmall

\* A destination longer than needed was written up to the needed length
C23_WitnessLonger ==
    /\ wr # None
    /\ Len(wr.b) > NeedLen
    /\ wr.err = NoErr
    /\ wr.n = NeedLen
    /\ hdr.AuthData.present

\* The stored origin address is an IPv4 address (4 bytes, or IPv4-mapped)
OriginIsV4 == To4(hdr.OrigSrc) # <<>>

\* C24: Packet.WriteBinary writes 4 address bytes and clears bit 4 of byte 0
\* when the stored origin address is an IPv4 address, and writes the 16
\* address bytes and sets bit 4 otherwise, whatever the AddressType field held
\* before the call; what follows the address starts right after as many bytes
\* as the written bit announces.
C24_AddressFamily ==
    (wr # None /\ wr.err # ErrTooSmall)
    => LET alen == IF OriginIsV4 THEN 4 ELSE 16
       IN  /\ Bit(wr.b[1], 4) = ~OriginIsV4
           /\ AddrLenOf(wr.b) = alen
           /\ Slice(wr.b, 4, 4 + alen)
                = (IF OriginIsV4 THEN To4(hdr.OrigSrc) ELSE hdr.OrigSrc)
           /\ wr.err = NoErr
                => /\ wr.n = 4 + alen + 4 * wr.b[2]
                             + (IF hdr.Version = 1 THEN Len(hdr.PayloadType) + 1 ELSE 0)
                             + Len(payload)
                   /\ Slice(wr.b, wr.n - Len(payload), wr.n) = payload
                   /\ wr.b[2] # 0 => wr.b[5 + alen] \div 32 = hdr.AuthData.Version

\* An IPv4-mapped 16-byte origin whose AddressType field said IPv6 was encoded
\* with an auth block and a payload
C24_Witness ==
    /\ wr # None
    /\ wr.err = NoErr
    /\ hdr.OrigSrc = Addr4in6
    /\ hdr.AddressType
    /\ hdr.AuthData.present
    /\ Len(payload) > 0
    /\ ~Bit(wr.b[1], 4)

\* An IPv6 origin whose AddressType field said IPv4 was encoded
C24_WitnessV6 ==
    /\ wr # None
    /\ wr.err = NoErr
    /\ hdr.OrigSrc = Addr6
    /\ ~hdr.AddressType
    /\ Bit(wr.b[1], 4)

\* The result of ParseSDP carries no SDPPacket
NoSDPPacket(r) == "Header" \notin DOMAIN r /\ "Payload" \notin DOMAIN r

\* C25: Packet.ParseSDP returns an error and no SDPPacket when PayloadType is
\* not application/sdp, without invoking the SDP parser, or when the SDP
\* parser rejects the payload; otherwise it returns no error and an SDPPacket
\* whose Header is the packet's Header and whose payload is the parser's
\* result.
C25_ParseSDP ==
    cpc = "parsed"
    => LET p == dec.p
           r == dec.res
           d == sdpParse(p.Payload)
       IN  IF p.h.PayloadType # SDPPayloadType
           THEN r.err # NoErr /\ NoSDPPacket(r) /\ ~r.parserCalled
           ELSE IF d.err # NoErr
           THEN r.err # NoErr /\ NoSDPPacket(r)
           ELSE /\ r.err = NoErr
                /\ ~NoSDPPacket(r)
                /\ r.Header = p.h
                /\ r.Payload = d.desc

\* A packet with the payload "v=0\r\n" became an SDPPacket
C25_Witness ==
    /\ cpc = "parsed"
    /\ dec.res.err = NoErr
    /\ dec.res.parserCalled
    /\ dec.res.Header = dec.p.h
    /\ Len(dec.res.Payload) > 0

\* A packet of another payload type was refused
C25_WitnessOtherType ==
    /\ cpc = "parsed"
    /\ dec.p.h.PayloadType # SDPPayloadType
    /\ dec.res.err = ErrNotSDP

\* A packet whose payload the SDP parser rejects was refused
C25_WitnessRejected ==
    /\ cpc = "parsed"
    /\ dec.p.h.PayloadType = SDPPayloadType
    /\ dec.res.err = ErrSDP

\* This step of parseRTP handles a valid packet of a started stream
StartedPacketStep == rtp.started /\ Len(rtp'.pkts) = Len(rtp.pkts) + 1

\* The sequence number of the packet this step handles, and the number of its read
Observed == rtp'.pkts[Len(rtp'.pkts)]
ObservedAt == rtp.reads + 1

\* The lines logged for the read number k
ReportsAt(k) == {i \in DOMAIN rtp.log : rtp.log[i].at = k}
Starts == {i \in DOMAIN rtp.log : rtp.log[i].kind = "start"}

\* C26: the first valid RTP packet, whatever its sequence number N (0
\* included), is reported as the stream start at sequence N, once, with no loss
\* and no reset report for that packet; no later packet of the run is reported
\* as a stream start.
C26_StreamStart ==
    rtp.pkts # <<>>
    => /\ Cardinality(Starts) = 1
       /\ \A i \in Starts : rtp.log[i] = Report("start", rtp.pkts[1], rtp.pkts[1], 1)
       /\ ReportsAt(1) = Starts

\* A stream that started at sequence number 0 and went on
C26_Witness ==
    /\ Len(rtp.pkts) = MaxDatagrams
    /\ rtp.pkts[1] = 0
    /\ rtp.log[1] = Report("start", 0, 0, 1)

\* C27: for a started stream, a packet whose sequence number is
\* (last_sequence + 1) mod 65536 produces no report; 65535 followed by 0
\* included.
C27_InSequence ==
    [][(StartedPacketStep /\ Observed = (rtp.seqnum + 1) % Uint16)
       => rtp'.log = rtp.log]_vars

\* 65535 was followed by 0 and nothing was logged for the 0
C27_Witness ==
    \E k \in 1..(Len(rtp.pkts) - 1) :
        /\ rtp.pkts[k] = 65535
        /\ rtp.pkts[k + 1] = 0
        /\ ReportsAt(k + 1) = {}

\* C28: for a started stream, a packet whose sequence number is
\* (last_sequence + 2) mod 65536 produces exactly one report, naming the lost
\* packet (last_sequence + 1) mod 65536; the sequences 10, 11, 13 produce, over
\* the whole run, one loss report, for packet 12.
C28_SingleLoss ==
    /\ [](rtp.pkts = <<10, 11, 13>>
            => /\ {i \in DOMAIN rtp.log : rtp.log[i].kind \in {"lost", "range", "reset"}} = {2}
               /\ rtp.log[2] = Report("lost", 12, 12, 3))
    /\ [][(StartedPacketStep /\ Observed = (rtp.seqnum + 2) % Uint16)
          => rtp'.log = Append(rtp.log, Report("lost", (rtp.seqnum + 1) % Uint16,
                                               (rtp.seqnum + 1) % Uint16, ObservedAt))]_vars

\* The packets 10, 11, 13 were received
C28_Witness == rtp.pkts = <<10, 11, 13>> /\ Len(rtp.log) = 2

\* 65534 was followed by 0 and the loss of 65535 was reported
C28_WitnessWrap ==
    \E k \in 1..(Len(rtp.pkts) - 1) :
        /\ rtp.pkts[k] = 65534
        /\ rtp.pkts[k + 1] = 0
        /\ \E i \in ReportsAt(k + 1) : rtp.log[i].kind = "lost" /\ rtp.log[i].from = 65535

\* The observed sequence number is 0 and the last one is at most 65500
ResetCase == Observed = 0 /\ rtp.seqnum <= ResetLimit

\* C29: for a started stream, a packet whose sequence number is neither
\* (last_sequence + 1) nor (last_sequence + 2) mod 65536, the reset case apart,
\* produces exactly one report, the lost range from (last_sequence + 1) mod
\* 65536 to (observed - 1) mod 65536; 65533 followed by 0 reports 65534 to
\* 65535.  After every valid packet last_sequence is that packet's sequence
\* number.
C29_LostRange ==
    /\ [](rtp.pkts # <<>> => rtp.started /\ rtp.seqnum = rtp.pkts[Len(rtp.pkts)])
    /\ [][(/\ StartedPacketStep
           /\ Observed # (rtp.seqnum + 1) % Uint16
           /\ Observed # (rtp.seqnum + 2) % Uint16
           /\ ~ResetCase)
          => rtp'.log = Append(rtp.log, Report("range", (rtp.seqnum + 1) % Uint16,
                                               (Observed - 1) % Uint16, ObservedAt))]_vars

\* 65533 was followed by 0, reported as the loss of 65534 to 65535, and the
\* next packet 1 was in sequence
C29_Witness ==
    /\ rtp.pkts = <<65533, 0, 1>>
    /\ rtp.log = <<Report("start", 65533, 65533, 1), Report("range", 65534, 65535, 2)>>

\* C30: for a started stream, a packet with sequence number 0 after a last
\* sequence number of at most 65500 produces exactly one report, the stream
\* reset, and no loss report; after a last sequence number in 65501..65534 it
\* produces a loss report and no reset report.
C30_ResetHeuristic ==
    [][(StartedPacketStep /\ Observed = 0)
       => /\ rtp.seqnum <= ResetLimit
               => rtp'.log = Append(rtp.log, Report("reset", 0, 0, ObservedAt))
          /\ rtp.seqnum \in (ResetLimit + 1)..(Uint16 - 2)
               => \E r \in {Report("lost", Uint16 - 1, Uint16 - 1, ObservedAt),
                            Report("range", rtp.seqnum + 1, Uint16 - 1, ObservedAt)} :
                      rtp'.log = Append(rtp.log, r)]_vars

\* 65500 was followed by 0 and the reset was reported
C30_Witness ==
    \E k \in 1..(Len(rtp.pkts) - 1) :
        /\ rtp.pkts[k] = ResetLimit
        /\ rtp.pkts[k + 1] = 0
        /\ \E i \in ReportsAt(k + 1) : rtp.log[i].kind = "reset"

\* 65501 was followed by 0 and a lost range was reported
C30_WitnessLoss ==
    \E k \in 1..(Len(rtp.pkts) - 1) :
        /\ rtp.pkts[k] = ResetLimit + 1
        /\ rtp.pkts[k + 1] = 0
        /\ \E i \in ReportsAt(k + 1) : rtp.log[i].kind = "range"

\* This step of parseRTP is a read that delivers no valid RTP packet: the
\* deadline passes, the read fails, or the datagram is refused
FailedReadStep == rtp'.reads = rtp.reads + 1 /\ rtp'.pkts = rtp.pkts

\* The lines about the stream: its start, a loss, a reset
StreamReports(r) == {i \in DOMAIN r.log : r.log[i].kind \in {"start", "lost", "range", "reset"}}

\* C31: parseRTP returns when a read times out, when a read fails with another
\* error and when a datagram is not valid RTP; once it has returned it reads no
\* datagram and logs no stream start, loss or reset; it does not return after
\* a datagram that is valid RTP.
C31_Termination ==
    /\ [][FailedReadStep
            => rtp'.pc = "returned" /\ StreamReports(rtp') = StreamReports(rtp)]_vars
    /\ [][rtp.pc = "returned" => rtp' = rtp]_vars
    /\ [][Len(rtp'.pkts) = Len(rtp.pkts) + 1 => rtp'.pc = "read"]_vars
    /\ [](rtp.pc = "returned" => ~ENABLED NextRtp)

\* parseRTP returned on a timeout after two packets, the second after a gap
C31_Witness ==
    /\ rtp.pc = "returned"
    /\ Len(rtp.pkts) = 2
    /\ rtp.log[Len(rtp.log)].kind = "timeout"
    /\ Cardinality(StreamReports(rtp)) = 2

\* This step of parseRTP reads a datagram addressed to another destination
ForeignStep == rtp'.reads = rtp.reads + 1 /\ rtp'.dst = OtherDestination

\* C32: a datagram that reaches the socket but is not addressed to the expected
\* destination changes neither started nor the last sequence number and
\* produces no stream-start, loss or reset report.
C32_DestinationFilter ==
    [][ForeignStep
         => /\ rtp'.started = rtp.started
            /\ rtp'.seqnum = rtp.seqnum
            /\ StreamReports(rtp') = StreamReports(rtp)]_vars

\* C33: no entry is received from the channel Iterator returned while the read
\* lock that Iterator call took is still held.
C33_SnapshotLockScope ==
    [][ItRecv => itPc = "closed" /\ rw.readers = 0]_vars

\* C34: the goroutine Iterator starts never blocks while it holds the read
\* lock (the channel has room for every entry of the map, which does not
\* change under the lock), so it always goes on to release the lock and close
\* the channel, whether or not the caller receives and whatever countStreams
\* and the WaitChange callers do.
C34_IteratorCompletes ==
    /\ [](itPc = "range" => /\ rw.readers > 0
                            /\ lifetimes = itSnap
                            /\ ENABLED (ItVisit \/ ItRUnlock))
    /\ (itPc = "range") ~> (itPc = "closed" /\ rw.readers = 0)

\* The goroutine has released the lock and closed the channel with both
\* entries of the map in it, none received
C34_Witness ==
    /\ itPc = "closed"
    /\ rw.readers = 0
    /\ Len(itCh) = 2
    /\ itCap = 2
    /\ Len(itSent) = 2

\* A caller is blocked in the receive of WaitChange
SomeoneWaits == \E w \in Waiters : wPc[w] = "recv"

\* C35: countStreams sends the notification of an ingest before it reads the
\* next datagram, and the send completes only when a WaitChange caller receives
\* it: the WaitChange calls that returned true are as many as the completed map
\* updates or one less, each notification is received by one caller (none is
\* coalesced), and countStreams does not leave the send, so ingests nothing
\* further, while no caller is in WaitChange.
C35_LockStep ==
    /\ [](trueReturns <= ingests /\ ingests <= trueReturns + 1)
    /\ [][CsRead => trueReturns = ingests]_vars
    /\ [][ingests' # ingests => ingests' = ingests + 1 /\ trueReturns = ingests]_vars
    /\ [][trueReturns' # trueReturns
            => /\ trueReturns' = trueReturns + 1
               /\ csPc = "send" /\ csPc' = "read"
               /\ Cardinality({w \in Waiters : wPc[w] = "recv" /\ wPc'[w] = "idle"}) = 1]_vars
    /\ [][(csPc = "send" /\ csPc' # "send") => SomeoneWaits]_vars
    /\ [](csPc = "send" /\ ~SomeoneWaits => ~ENABLED (\E w \in Waiters : Notify(w)))

\* The second ingest is complete, its notification not yet received: no caller
\* is in WaitChange and countStreams waits in the send
C35_Witness ==
    /\ csPc = "send"
    /\ ~SomeoneWaits
    /\ ingests = 2
    /\ trueReturns = 1

\* The session names of a sequence of entries
SessionsOf(q) == {q[i].Session : i \in DOMAIN q}

\* C36: with one Close() call next to Read() calls and ingestion, no Read() or
\* Close() call panics by sending on a closed channel, every Read() returns a
\* snapshot with one entry for each session name ingested so far, and once
\* Close() has returned countStreams has returned.
C36_StreamChanProtocol ==
    /\ \A r \in Readers : sc.rd[r] # "panicked"
    /\ sc.cl # "panicked"
    /\ sc.pc = "send"
         => /\ SessionsOf(sc.snapshot) = SessionsOf(sc.channels)
            /\ \A i, j \in DOMAIN sc.snapshot :
                  sc.snapshot[i].Session = sc.snapshot[j].Session => i = j
    /\ sc.cl = "done" => sc.pc = "returned"

\* C37: once the control channel of streamDecode is closed, streamDecode
\* eventually ends with the connection and the announces channel closed,
\* whether or not another datagram arrives; a value sent on the control
\* channel is taken and the loop goes on to read.
C37_StreamDecodeShutdown ==
    /\ (sd.control = "closed") ~> (sd.connClosed /\ sd.annClosed)
    /\ [][sd.pc = "select" /\ sd.control = "sending" /\ sd'.pc # "select"
            => sd'.pc = "read" /\ ~sd'.connClosed /\ ~sd'.annClosed]_vars

\* The requested names of the call
Requested == {fc.channels[i] : i \in DOMAIN fc.channels}

\* C38: whatever non-empty list of names is requested, when every requested
\* name keeps being announced FindChannels eventually returns; when it has
\* returned the map has an entry for exactly the requested names, each with
\* the address and the first media port of the latest announcement read for
\* that name; a name that was not requested never gets an entry.
C38_FindChannelsTermination ==
    /\ <>(fc.pc = "returned")
    /\ [](fc.pc = "returned" =>
             \A n \in Requested :
                 /\ fc.seen[n] # NoAnnouncement
                 /\ fc.matches[n] = [IP |-> ParseIP(fc.seen[n].Address),
                                     Port |-> fc.seen[n].Media[1]])
    /\ [](\A n \in AnnouncedNames \ Requested : fc.matches[n] = NoAddr)

=============================================================================
